---- MODULE Spec2Model ----
(***************************************************************************)
(* ClipFlow: the recording session state machine (recording/manager.rs),   *)
(* the capture handles it owns, and the clip repository commands that      *)
(* share the AppState mutex (commands.rs).                                 *)
(*                                                                         *)
(* Option<T> is modelled as a sequence of length <= 1: <<>> is None and    *)
(* <<v>> is Some(v); Vec<T> is a sequence.  A path is a record             *)
(* [stem, ext] whose stem is a sequence of tokens, so that file_stem(),    *)
(* split("_seg") and replace("_seg", "") act on it as they act on the      *)
(* string.  Every spawned process or worker thread gets a fresh index in   *)
(* `handles`.  Each critical section of the code (one MutexGuard scope) is *)
(* one atomic action; the work between two critical sections of an async   *)
(* function is an action of its own, so calls interleave exactly at the    *)
(* lock boundaries.                                                        *)
(*                                                                         *)
(* Functions outside AppState (export/encoder.rs, concat_segments,         *)
(* clamp_region) are followed one call at a time in `call`, each under a   *)
(* specification of its own whose initial states are the call's inputs.    *)
(*                                                                         *)
(* `env` is the clock and what the spawned processes and workers do        *)
(* outside AppState (the files they write, the events they push); it       *)
(* moves only under SpecTimed and SpecSegments.                            *)
(***************************************************************************)
EXTENDS Integers, Sequences, FiniteSets, TLC

\* ---------------------------------------------------------------- bounds
NumTasks == 2        \* async pause/stop calls that can be in flight at once
MaxSessions == 2     \* clip identities (uuids) start may allocate
MaxHandles == 3      \* processes and workers spawned over a whole run
MaxElapsedMs == 1    \* largest elapsed() reading of one segment
MaxReorderLen == 2   \* longest id list passed to reorder_clips
MaxSettingsSession == 0  \* settings commands run while at most this many sessions began
MaxTrimMs == 2       \* largest trim_start_ms / trim_end_ms passed to set_clip_trim
MaxClips == 3        \* most clips of an exported timeline
SubMs == 3           \* a probed duration resolves 1/SubMs of a millisecond
MaxExportClips == 2  \* most clips of a timeline whose export is followed to its return
MaxLines == 2        \* most time markers one encoder run prints
MaxSegments == 4     \* most segments passed to concat_segments
RegionBits == 4      \* width in bits of the i32 / u32 fields of a Region

MaxTextLen == 3      \* longest text passed to escape_drawtext
MaxHeld == 4         \* most modifier keys held at once

MaxClock == 3        \* milliseconds the clock runs for
MaxEvents == 1       \* most events one poller pushes

MaxRepoClips == 4    \* most clips of a repository delete_clip is called on

MaxKeyEvents == 2    \* longest freely chosen keystroke list; long lists exceed the cap by this

MaxPolls == 3        \* most turns of a worker's loop

MaxTrack == 3        \* longest freely chosen cursor track; long tracks exceed the cap by this

MaxMixClips == 3     \* most clips of a timeline exported with audio and overlays

VARIABLES
    \* AppState (state.rs)
    clips, transitions, recording_state, audio_source,
    ffmpeg_process, recording_start, current_clip_path,
    recording_segments, pause_accumulated_ms, segment_index,
    audio_handles, audio_temp_paths,
    keystroke_enabled, keystroke_handle,
    cursor_zoom_enabled, cursor_handle,
    \* environment
    handles,      \* every process/worker ever spawned, by index
    next_uuid,    \* uuids handed out by Uuid::new_v4 so far
    task,         \* the async pause/stop calls: position and moved-out locals
    last_ret,     \* what the command that returned last returned
    commits,      \* history: the session of each clip stop has pushed, in order
    call,         \* one call of a function outside AppState: its inputs, its
                  \* position and what it has produced so far
    env           \* the monotonic clock, and what each entry of `handles` was
                  \* started with and has produced

session == <<recording_state, ffmpeg_process, recording_start, current_clip_path,
             recording_segments, pause_accumulated_ms, segment_index,
             audio_handles, audio_temp_paths, keystroke_handle, cursor_handle>>
repo == <<clips, transitions>>
toggles == <<audio_source, keystroke_enabled, cursor_zoom_enabled>>
vars == <<clips, transitions, recording_state, audio_source,
          ffmpeg_process, recording_start, current_clip_path,
          recording_segments, pause_accumulated_ms, segment_index,
          audio_handles, audio_temp_paths,
          keystroke_enabled, keystroke_handle,
          cursor_zoom_enabled, cursor_handle,
          handles, next_uuid, task, last_ret, commits, call, env>>

Tasks == 1..NumTasks

\* ------------------------------------------------------------ data types
RecordingState == {"Idle", "Recording", "Paused"}
AudioSource == {"None", "System", "Microphone", "Both"}

\* Option<T>
None == <<>>
Some(v) == <<v>>
IsSome(o) == o # <<>>
Unwrap(o) == o[1]

\* Range of a sequence
Range(s) == {s[i] : i \in 1..Len(s)}

\* Transition::default()
TransitionDefault == [transition_type |-> "Fade"]

\* temp_dir.join(format!("{}.mp4", clip_id))
ClipPath(uuid) == [stem |-> <<[t |-> "uuid", n |-> uuid]>>, ext |-> "mp4"]

\* p.file_stem()
FileStem(p) ==
    IF p.ext = "concat.mp4" THEN Append(p.stem, [t |-> "concat", n |-> 0]) ELSE p.stem

\* temp_dir.join(format!("{}_seg{}.mp4", clip_id, segment_index))
SegmentPath(stem, idx) == [stem |-> Append(stem, [t |-> "seg", n |-> idx]), ext |-> "mp4"]

\* clip_path.with_extension("concat.mp4")
WithConcatExtension(p) == [stem |-> p.stem, ext |-> "concat.mp4"]

\* temp_dir.join(format!("{}_system.wav", clip_id)) / "{}_mic.wav"
AudioPath(stem, kind) == [stem |-> stem, ext |-> kind]

\* clip_id.split("_seg").next(): the part of the stem before the first "_seg"
RECURSIVE BeforeFirstSeg(_)
BeforeFirstSeg(stem) ==
    IF stem = <<>> \/ Head(stem).t = "seg" THEN <<>>
    ELSE <<Head(stem)>> \o BeforeFirstSeg(Tail(stem))

\* stem.replace("_seg", "").replace(".concat", ""): "_seg3" leaves the digit 3
RECURSIVE StripSegConcat(_)
StripSegConcat(stem) ==
    IF stem = <<>> THEN <<>>
    ELSE IF Head(stem).t = "concat" THEN StripSegConcat(Tail(stem))
    ELSE IF Head(stem).t = "seg"
         THEN <<[t |-> "num", n |-> Head(stem).n]>> \o StripSegConcat(Tail(stem))
    ELSE <<Head(stem)>> \o StripSegConcat(Tail(stem))

\* ------------------------------------------------------- capture handles
\* Command::spawn / std::thread::spawn: a new running process or worker
Spawn(hs, kind) == Append(hs, [kind |-> kind, stops |-> 0])

\* stop_capture (write 'q', wait for exit), start_kill, the drop of a
\* kill_on_drop Child, or stop_flag.store + join, on each handle of `ids`:
\* `stops` counts how many times the handle was ended
StopHandles(hs, ids) ==
    [i \in 1..Len(hs) |->
        IF i \in ids THEN [hs[i] EXCEPT !.stops = @ + 1] ELSE hs[i]]

\* the handle indices an Option or a Vec of handles holds
Held(o) == Range(o)

\* one async call slot: `pc` is the position, the rest are the locals moved
\* out of the lock (manager.rs 117, 192-197) and the value returned
TaskFree ==
    [op |-> "none", pc |-> "free",
     child |-> None, start_time |-> None, clip_path |-> None,
     segments |-> <<>>, accumulated_ms |-> 0, segment_ms |-> 0,
     audio_handles |-> <<>>, audio_temp_paths |-> <<>>,
     keystroke_handle |-> None, cursor_handle |-> None, clip |-> None,
     took |-> None, contended |-> FALSE]

\* what a command returned: `res` is "ok" or the error; `waited_locked` tells
\* whether it waited for a process or joined a worker while holding the lock
Ret(op, res) == [op |-> op, res |-> res, waited_locked |-> FALSE]

\* the session (uuid drawn by start) a path belongs to
SessionOf(path) == Head(path.stem).n

\* the async calls of kind `op` that are past their first critical section
InFlight(op) == {t \in Tasks : task[t].op = op /\ task[t].pc # "free"}

\* the slot a new async call runs in: slots are interchangeable, so the
\* lowest free one is used
Available(t) == task[t].pc = "free" /\ \A u \in 1..(t - 1) : task[u].pc # "free"

\* no call outside AppState is being followed
NoCall == [fn |-> "none"]

\* the clock at 0 and nothing spawned yet
EnvInit == [now |-> 0, started |-> <<>>]

\* AppState::default()
AppStateDefault ==
    /\ clips = <<>> /\ transitions = <<>>
    /\ recording_state = "Idle"
    /\ audio_source = "None"
    /\ ffmpeg_process = None /\ recording_start = None /\ current_clip_path = None
    /\ recording_segments = <<>> /\ pause_accumulated_ms = 0 /\ segment_index = 0
    /\ audio_handles = <<>> /\ audio_temp_paths = <<>>
    /\ keystroke_enabled = FALSE /\ keystroke_handle = None
    /\ cursor_zoom_enabled = FALSE /\ cursor_handle = None
    /\ handles = <<>> /\ next_uuid = 0
    /\ task = [t \in Tasks |-> TaskFree]
    /\ last_ret = Ret("none", "none")
    /\ commits = <<>>
    /\ env = EnvInit

Init == AppStateDefault /\ call = NoCall

\* ------------------------------------------------------------------ start
\* start_audio_captures with each path pushed before the capture is started,
\* so that a failed source still leaves its temp path behind
StartAudioCapturesPathFirst(hs, ah, ap, src, stem, sys_ok, mic_ok) ==
    IF src = "None"
    THEN [handles |-> hs, audio_handles |-> ah, audio_temp_paths |-> ap]
    ELSE LET sys == src \in {"System", "Both"} /\ sys_ok
             mic == src \in {"Microphone", "Both"} /\ mic_ok
             hs1 == IF sys THEN Spawn(hs, "system") ELSE hs
             ah1 == IF sys THEN <<Len(hs1)>> ELSE <<>>
             ap1 == IF src \in {"System", "Both"}
                    THEN <<AudioPath(stem, "system")>> ELSE <<>>
             hs2 == IF mic THEN Spawn(hs1, "mic") ELSE hs1
             ah2 == IF mic THEN Append(ah1, Len(hs2)) ELSE ah1
             ap2 == IF src \in {"Microphone", "Both"}
                    THEN Append(ap1, AudioPath(stem, "mic")) ELSE ap1
         IN  [handles |-> hs2, audio_handles |-> ah2, audio_temp_paths |-> ap2]

\* start_audio_captures: returns the handles, audio_handles and
\* audio_temp_paths it leaves; sys_ok / mic_ok are the outcomes of
\* start_system_capture / start_mic_capture_device
StartAudioCaptures(hs, ah, ap, src, stem, sys_ok, mic_ok) ==
    IF src = "None"
    THEN [handles |-> hs, audio_handles |-> ah, audio_temp_paths |-> ap]
    ELSE LET sys == src \in {"System", "Both"} /\ sys_ok
             mic == src \in {"Microphone", "Both"} /\ mic_ok
             hs1 == IF sys THEN Spawn(hs, "system") ELSE hs
             ah1 == IF sys THEN <<Len(hs1)>> ELSE <<>>
             ap1 == IF sys THEN <<AudioPath(stem, "system")>> ELSE <<>>
             hs2 == IF mic THEN Spawn(hs1, "mic") ELSE hs1
             ah2 == IF mic THEN Append(ah1, Len(hs2)) ELSE ah1
             ap2 == IF mic THEN Append(ap1, AudioPath(stem, "mic")) ELSE ap1
         IN  [handles |-> hs2, audio_handles |-> ah2, audio_temp_paths |-> ap2]

\* start with the reset of the segment tracking moved above the state check
StartRejectedAfterReset ==
    /\ recording_state # "Idle"
    /\ recording_segments' = <<>>
    /\ pause_accumulated_ms' = 0
    /\ segment_index' = 0
    /\ last_ret' = Ret("start", "already_recording")
    /\ UNCHANGED <<recording_state, ffmpeg_process, recording_start, current_clip_path,
                   audio_handles, audio_temp_paths, keystroke_handle, cursor_handle,
                   repo, toggles, handles, next_uuid, task, commits>>

\* start called while not Idle: the early return of manager.rs 16-18
StartRejected ==
    /\ recording_state # "Idle"
    /\ last_ret' = Ret("start", "already_recording")
    /\ UNCHANGED <<session, repo, toggles, handles, next_uuid, task, commits>>

\* create_dir_all fails: returns before anything is written
StartDirFailed ==
    /\ recording_state = "Idle"
    /\ last_ret' = Ret("start", "io_error")
    /\ UNCHANGED <<session, repo, toggles, handles, next_uuid, task, commits>>

\* the video spawn fails with the clip path stored before the spawn is tried
StartSpawnFailedLate ==
    /\ recording_state = "Idle"
    /\ recording_segments' = <<>>
    /\ pause_accumulated_ms' = 0
    /\ segment_index' = 0
    /\ current_clip_path' = Some(ClipPath(next_uuid + 1))
    /\ last_ret' = Ret("start", "spawn_failed")
    /\ UNCHANGED <<recording_state, ffmpeg_process, recording_start,
                   audio_handles, audio_temp_paths, keystroke_handle, cursor_handle,
                   repo, toggles, handles, next_uuid, task, commits>>

\* the video spawn fails: segment tracking was reset, and the `?` of line 36
\* returns before any handle field is assigned (the uuid drawn is dropped
\* unused, so it is not counted)
StartSpawnFailed ==
    /\ recording_state = "Idle"
    /\ recording_segments' = <<>>
    /\ pause_accumulated_ms' = 0
    /\ segment_index' = 0
    /\ last_ret' = Ret("start", "spawn_failed")
    /\ UNCHANGED <<recording_state, ffmpeg_process, recording_start, current_clip_path,
                   audio_handles, audio_temp_paths, keystroke_handle, cursor_handle,
                   repo, toggles, handles, next_uuid, task, commits>>

\* the video spawn succeeds; audio and keystroke starts may each fail
StartOk(sys_ok, mic_ok, key_ok) ==
    /\ recording_state = "Idle"
    /\ next_uuid < MaxSessions
    /\ LET clip_id == next_uuid + 1
           clip_path == ClipPath(clip_id)
           hs1 == Spawn(handles, "video")
           child == Len(hs1)
           a == StartAudioCaptures(hs1, audio_handles, audio_temp_paths, audio_source,
                                   clip_path.stem, sys_ok, mic_ok)
           key == keystroke_enabled /\ key_ok
           hs2 == IF key THEN Spawn(a.handles, "keystroke") ELSE a.handles
           hs3 == IF cursor_zoom_enabled THEN Spawn(hs2, "cursor") ELSE hs2
       IN  /\ Len(hs3) <= MaxHandles
           /\ recording_segments' = <<>>
           /\ pause_accumulated_ms' = 0
           /\ segment_index' = 0
           /\ next_uuid' = clip_id
           /\ ffmpeg_process' = Some(child)
           /\ recording_start' = Some(child)
           /\ current_clip_path' = Some(clip_path)
           /\ recording_state' = "Recording"
           /\ audio_handles' = a.audio_handles
           /\ audio_temp_paths' = a.audio_temp_paths
           /\ keystroke_handle' = IF key THEN Some(Len(hs2)) ELSE keystroke_handle
           /\ cursor_handle' = IF cursor_zoom_enabled THEN Some(Len(hs3)) ELSE cursor_handle
           /\ handles' = hs3
    /\ last_ret' = Ret("start", "ok")
    /\ UNCHANGED <<repo, toggles, task, commits>>

Start ==
    \/ StartRejected
    \/ StartDirFailed
    \/ StartSpawnFailed
    \/ \E sys_ok, mic_ok, key_ok \in BOOLEAN : StartOk(sys_ok, mic_ok, key_ok)

\* ------------------------------------------------------------------ pause
\* first critical section of pause, state not Recording: early return
PauseRejected(t) ==
    /\ Available(t)
    /\ recording_state # "Recording"
    /\ last_ret' = Ret("pause", "not_recording")
    /\ UNCHANGED <<session, repo, toggles, handles, next_uuid, task, commits>>

\* clone() in place of take(): the state keeps what the call carries away
PauseCloned(o) == o

\* what s.ffmpeg_process.take() / s.recording_start.take() leave in the state
PauseTaken(o) == None

\* first critical section of pause, state Recording, one of the ok_or(..)?
\* returns: what was taken before it is gone from the state, and a Child
\* that was taken is dropped (kill_on_drop)
PauseLock1Failed(t) ==
    /\ IF ~IsSome(ffmpeg_process)
       THEN /\ last_ret' = Ret("pause", "no_process")
            /\ UNCHANGED <<ffmpeg_process, recording_start, handles>>
       ELSE /\ ffmpeg_process' = PauseTaken(ffmpeg_process)
            /\ handles' = StopHandles(handles, Held(ffmpeg_process))
            /\ IF ~IsSome(recording_start)
               THEN /\ last_ret' = Ret("pause", "no_start_time")
                    /\ UNCHANGED recording_start
               ELSE /\ last_ret' = Ret("pause", "no_clip_path")
                    /\ recording_start' = PauseTaken(recording_start)
    /\ UNCHANGED <<recording_state, current_clip_path, recording_segments,
                   pause_accumulated_ms, segment_index, audio_handles,
                   audio_temp_paths, keystroke_handle, cursor_handle,
                   repo, toggles, next_uuid, task, commits>>

\* first critical section of pause, state Recording, all three present:
\* take() the child and the start time, clone the clip path, mem::take the
\* audio handles, mark Paused
PauseLock1Ok(t) ==
    /\ ffmpeg_process' = PauseTaken(ffmpeg_process)
    /\ recording_start' = PauseTaken(recording_start)
    /\ audio_handles' = <<>>
    /\ recording_state' = "Paused"
    /\ task' = [task EXCEPT ![t] =
           [TaskFree EXCEPT !.op = "pause", !.pc = "blocking",
                            !.child = ffmpeg_process,
                            !.start_time = recording_start,
                            !.clip_path = current_clip_path,
                            !.audio_handles = audio_handles,
                            !.took = Some(SessionOf(Unwrap(current_clip_path)))]]
    /\ UNCHANGED <<current_clip_path, recording_segments, pause_accumulated_ms,
                   segment_index, audio_temp_paths, keystroke_handle, cursor_handle,
                   repo, toggles, handles, next_uuid, last_ret, commits>>

\* first critical section of pause, state Recording (lines 124-133)
PauseLock1(t) ==
    /\ Available(t)
    /\ recording_state = "Recording"
    /\ IF IsSome(ffmpeg_process) /\ IsSome(recording_start) /\ IsSome(current_clip_path)
       THEN PauseLock1Ok(t)
       ELSE PauseLock1Failed(t)

\* outside the lock: screen::stop_capture(&mut child).await fails, the `?`
\* returns and the audio handles are dropped without being stopped
PauseStopFailed(t) ==
    /\ task[t].op = "pause" /\ task[t].pc = "blocking"
    /\ handles' = StopHandles(handles, Held(task[t].child))
    /\ task' = [task EXCEPT ![t] = TaskFree]
    /\ last_ret' = Ret("pause", "stop_failed")
    /\ UNCHANGED <<session, repo, toggles, next_uuid, commits>>

\* outside the lock: the video process exits cleanly, the audio workers are
\* signalled and joined, and the segment's elapsed time is read
PauseBlocking(t) ==
    /\ task[t].op = "pause" /\ task[t].pc = "blocking"
    /\ \E ms \in 1..MaxElapsedMs :
          /\ handles' = StopHandles(handles,
                             Held(task[t].child) \cup Held(task[t].audio_handles))
          /\ task' = [task EXCEPT ![t].pc = "lock2",
                                  ![t].segment_ms = ms,
                                  ![t].child = None,
                                  ![t].audio_handles = <<>>]
    /\ UNCHANGED <<session, repo, toggles, next_uuid, last_ret, commits>>

\* second critical section of pause: the bookkeeping of lines 145-150
PauseLock2(t) ==
    /\ task[t].op = "pause" /\ task[t].pc = "lock2"
    /\ pause_accumulated_ms' = pause_accumulated_ms + task[t].segment_ms
    /\ recording_segments' = Append(recording_segments, Unwrap(task[t].clip_path))
    /\ segment_index' = segment_index + 1
    /\ task' = [task EXCEPT ![t] = TaskFree]
    /\ last_ret' = Ret("pause", "ok")
    /\ UNCHANGED <<recording_state, ffmpeg_process, recording_start, current_clip_path,
                   audio_handles, audio_temp_paths, keystroke_handle, cursor_handle,
                   repo, toggles, handles, next_uuid, commits>>

Pause(t) ==
    \/ PauseRejected(t)
    \/ PauseLock1(t)
    \/ PauseStopFailed(t)
    \/ PauseBlocking(t)
    \/ PauseLock2(t)

\* ----------------------------------------------------------------- resume
\* resume called while not Paused: the early return of manager.rs 158-160
ResumeRejected ==
    /\ recording_state # "Paused"
    /\ last_ret' = Ret("resume", "not_paused")
    /\ UNCHANGED <<session, repo, toggles, handles, next_uuid, task, commits>>

\* the video spawn of the new segment fails: `?` before any assignment
ResumeSpawnFailed ==
    /\ recording_state = "Paused"
    /\ last_ret' = Ret("resume", "spawn_failed")
    /\ UNCHANGED <<session, repo, toggles, handles, next_uuid, task, commits>>

\* resume from Paused: new segment file named from the stem of the current
\* path, new video process, audio restarted under "{base_id}_seg{index}"
ResumeOk(sys_ok, mic_ok) ==
    /\ recording_state = "Paused"
    /\ LET clip_id == IF IsSome(current_clip_path)
                      THEN FileStem(Unwrap(current_clip_path))
                      ELSE ClipPath(next_uuid + 1).stem
           segment_path == SegmentPath(clip_id, segment_index)
           hs1 == Spawn(handles, "video")
           child == Len(hs1)
           audio_id == Append(BeforeFirstSeg(clip_id), [t |-> "seg", n |-> segment_index])
           a == StartAudioCaptures(hs1, audio_handles, audio_temp_paths, audio_source,
                                   audio_id, sys_ok, mic_ok)
       IN  /\ Len(a.handles) <= MaxHandles
           /\ ffmpeg_process' = Some(child)
           /\ recording_start' = Some(child)
           /\ current_clip_path' = Some(segment_path)
           /\ recording_state' = "Recording"
           /\ audio_handles' = a.audio_handles
           /\ audio_temp_paths' = a.audio_temp_paths
           /\ handles' = a.handles
    /\ next_uuid' = IF IsSome(current_clip_path) THEN next_uuid ELSE next_uuid + 1
    /\ last_ret' = Ret("resume", "ok")
    /\ UNCHANGED <<recording_segments, pause_accumulated_ms, segment_index,
                   keystroke_handle, cursor_handle, repo, toggles, task, commits>>

Resume ==
    \/ ResumeRejected
    \/ ResumeSpawnFailed
    \/ \E sys_ok, mic_ok \in BOOLEAN : ResumeOk(sys_ok, mic_ok)

\* ------------------------------------------------------------------- stop
\* history: a stop call was turned away while the stop calls of `ts` held
\* the session it came for
Contend(ts) == [t \in Tasks |-> IF t \in ts THEN [task[t] EXCEPT !.contended = TRUE]
                                ELSE task[t]]

\* first critical section of stop, state Idle: early return
StopRejected(t) ==
    /\ Available(t)
    /\ recording_state \notin {"Recording", "Paused"}
    /\ last_ret' = Ret("stop", "not_recording")
    /\ task' = Contend({u \in InFlight("stop") : task[u].took = Some(next_uuid)})
    /\ UNCHANGED <<session, repo, toggles, handles, next_uuid, commits>>

\* first critical section of stop, state Recording or Paused, no clip path:
\* the child and the start time were taken before the ok_or(..)? returns
StopLock1Failed(t) ==
    /\ ffmpeg_process' = None
    /\ recording_start' = None
    /\ handles' = StopHandles(handles, Held(ffmpeg_process))
    /\ last_ret' = Ret("stop", "no_clip_path")
    /\ UNCHANGED <<recording_state, current_clip_path, recording_segments,
                   pause_accumulated_ms, segment_index, audio_handles,
                   audio_temp_paths, keystroke_handle, cursor_handle,
                   repo, toggles, next_uuid, task, commits>>

\* stop without the assignment of line 210: the state stays what it was
StopLeavesState == recording_state

\* the state stop leaves behind once it has taken the session (line 210)
StopMarksState == "Idle"

\* first critical section of stop, state Recording or Paused, clip path
\* present: take the child, the start time and the clip path, mark Idle,
\* take the segment list, read the accumulated time, take every capture handle
StopLock1Ok(t) ==
    /\ ffmpeg_process' = None
    /\ recording_start' = None
    /\ current_clip_path' = None
    /\ recording_state' = StopMarksState
    /\ recording_segments' = <<>>
    /\ audio_handles' = <<>>
    /\ audio_temp_paths' = <<>>
    /\ keystroke_handle' = None
    /\ cursor_handle' = None
    /\ task' = [task EXCEPT ![t] =
           [TaskFree EXCEPT !.op = "stop", !.pc = "blocking",
                            !.child = ffmpeg_process,
                            !.start_time = recording_start,
                            !.clip_path = current_clip_path,
                            !.segments = recording_segments,
                            !.accumulated_ms = pause_accumulated_ms,
                            !.audio_handles = audio_handles,
                            !.audio_temp_paths = audio_temp_paths,
                            !.keystroke_handle = keystroke_handle,
                            !.cursor_handle = cursor_handle,
                            !.took = Some(SessionOf(Unwrap(current_clip_path)))]]
    /\ UNCHANGED <<pause_accumulated_ms, segment_index, repo, toggles, handles,
                   next_uuid, last_ret, commits>>

\* first critical section of stop, state Recording or Paused (lines 204-228)
StopLock1(t) ==
    /\ Available(t)
    /\ recording_state \in {"Recording", "Paused"}
    /\ IF IsSome(current_clip_path) THEN StopLock1Ok(t) ELSE StopLock1Failed(t)

\* outside the lock: stop_capture on the running child fails; the `?` of
\* line 235 returns and every other handle is dropped without being stopped
StopCaptureFailed(t) ==
    /\ task[t].op = "stop" /\ task[t].pc = "blocking"
    /\ IsSome(task[t].child)
    /\ handles' = StopHandles(handles, Held(task[t].child))
    /\ task' = [task EXCEPT ![t] = TaskFree]
    /\ last_ret' = Ret("stop", "stop_failed")
    /\ UNCHANGED <<session, repo, toggles, next_uuid, commits>>

\* every handle the stop call owns, stopped by lines 233-253
StopOwned(t) ==
    Held(task[t].child) \cup Held(task[t].audio_handles)
        \cup Held(task[t].keystroke_handle) \cup Held(task[t].cursor_handle)

\* all_segments of lines 268-272
AllSegments(segments, clip_path, child) ==
    IF IsSome(child) THEN Append(segments, clip_path) ELSE segments

\* final_path of lines 259-290, once the existence check / concat succeeded;
\* `exists` is clip_path.exists() after the segment files were removed
FinalPath(segments, clip_path, child, exists) ==
    IF segments = <<>> THEN clip_path
    ELSE IF exists /\ clip_path \notin Range(AllSegments(segments, clip_path, child))
         THEN WithConcatExtension(clip_path)
         ELSE clip_path

\* the Clip of lines 292-324; `existing` are the audio files found on disk
BuildClip(final_path, duration_ms, temp_paths, existing) ==
    LET audio_paths == SelectSeq(temp_paths, LAMBDA a : a \in existing)
    IN  [id |-> StripSegConcat(FileStem(final_path)),
         path |-> final_path,
         duration_ms |-> duration_ms,
         has_audio |-> audio_paths # <<>>,
         trim_start_ms |-> 0,
         trim_end_ms |-> 0,
         audio_paths |-> audio_paths]

\* outside the lock: all handles stopped, but the clip file is missing
\* (no segments) or concat_segments fails (segments): stop returns Err
StopFileFailed(t) ==
    /\ task[t].op = "stop" /\ task[t].pc = "blocking"
    /\ handles' = StopHandles(handles, StopOwned(t))
    /\ task' = [task EXCEPT ![t] = TaskFree]
    /\ last_ret' = Ret("stop", IF task[t].segments = <<>> THEN "no_file"
                               ELSE "concat_failed")
    /\ UNCHANGED <<session, repo, toggles, next_uuid, commits>>

\* outside the lock: all handles stopped, duration computed, segments
\* concatenated, the Clip built
StopBlocking(t) ==
    /\ task[t].op = "stop" /\ task[t].pc = "blocking"
    /\ \E ms \in 1..MaxElapsedMs, exists \in BOOLEAN,
          existing \in SUBSET Range(task[t].audio_temp_paths) :
          LET last_segment_ms == IF IsSome(task[t].start_time) THEN ms ELSE 0
              total_duration_ms == task[t].accumulated_ms + last_segment_ms
              final_path == FinalPath(task[t].segments, Unwrap(task[t].clip_path),
                                      task[t].child, exists)
              clip == BuildClip(final_path, total_duration_ms,
                                task[t].audio_temp_paths, existing)
          IN  /\ handles' = StopHandles(handles, StopOwned(t))
              /\ task' = [task EXCEPT ![t] =
                     [TaskFree EXCEPT !.op = "stop", !.pc = "lock2",
                                      !.clip = Some(clip),
                                      !.start_time = task[t].start_time,
                                      !.took = task[t].took,
                                      !.contended = task[t].contended]]
    /\ UNCHANGED <<session, repo, toggles, next_uuid, last_ret, commits>>

\* second critical section of stop: push a default transition if a clip
\* exists already, push the clip, reset the pause counters, return Ok(clip)
StopLock2(t) ==
    /\ task[t].op = "stop" /\ task[t].pc = "lock2"
    /\ transitions' = IF clips # <<>> THEN Append(transitions, TransitionDefault)
                      ELSE transitions
    /\ clips' = Append(clips, Unwrap(task[t].clip))
    /\ pause_accumulated_ms' = 0
    /\ segment_index' = 0
    /\ commits' = Append(commits, Unwrap(task[t].took))
    /\ task' = [task EXCEPT ![t] = TaskFree]
    /\ last_ret' = Ret("stop", "ok")
    /\ UNCHANGED <<recording_state, ffmpeg_process, recording_start, current_clip_path,
                   recording_segments, audio_handles, audio_temp_paths,
                   keystroke_handle, cursor_handle, toggles, handles, next_uuid>>

Stop(t) ==
    \/ StopRejected(t)
    \/ StopLock1(t)
    \/ StopCaptureFailed(t)
    \/ StopFileFailed(t)
    \/ StopBlocking(t)
    \/ StopLock2(t)

\* ----------------------------------------------------------------- cancel
\* the value cancel returns for a call made in `state`: it has no state
\* check and always ends in Ok(())
CancelResult(state) == "ok"

\* iter() in place of drain(..): the list stays in the state
CancelIterated(v) == v

\* what s.recording_segments.drain(..) leaves in the state (line 363)
CancelDrained(v) == <<>>

\* the workers cancel signals and joins (audio: lines 368-373; keystroke and
\* cursor: stop_capture / stop_tracking) while its guard `s` is alive
CancelJoined ==
    Held(audio_handles) \cup Held(keystroke_handle) \cup Held(cursor_handle)

\* cancel: one critical section; start_kill on the child, every list
\* drained, every worker stopped, counters reset, state Idle
Cancel ==
    /\ handles' = StopHandles(handles, Held(ffmpeg_process) \cup CancelJoined)
    /\ ffmpeg_process' = None
    /\ current_clip_path' = None
    /\ recording_segments' = CancelDrained(recording_segments)
    /\ audio_handles' = <<>>
    /\ audio_temp_paths' = <<>>
    /\ keystroke_handle' = None
    /\ cursor_handle' = None
    /\ recording_start' = None
    /\ recording_state' = "Idle"
    /\ pause_accumulated_ms' = 0
    /\ segment_index' = 0
    /\ last_ret' = [Ret("cancel", CancelResult(recording_state))
                      EXCEPT !.waited_locked = CancelJoined # {}]
    /\ UNCHANGED <<repo, toggles, next_uuid, task, commits>>

\* ------------------------------------------------- clip repository commands
\* an id no clip carries
UnknownId == <<[t |-> "uuid", n |-> 0]>>

\* the ids a caller can name: those of the clips, and one unknown id
ClipIds == {clips[i].id : i \in 1..Len(clips)} \cup {UnknownId}

\* the id lists of length <= MaxReorderLen a caller can pass
IdLists == UNION {[1..n -> ClipIds] : n \in 0..MaxReorderLen}

\* state.clips.iter().find(|c| &c.id == id): the first clip with that id
FindClip(id) ==
    clips[CHOOSE i \in 1..Len(clips) :
              /\ clips[i].id = id
              /\ \A j \in 1..(i - 1) : clips[j].id # id]

\* reorder_clips: every id is looked up in turn; an unknown one returns Err
\* before state.clips is assigned
ReorderClips(clip_ids) ==
    /\ IF \A i \in 1..Len(clip_ids) : \E j \in 1..Len(clips) : clips[j].id = clip_ids[i]
       THEN /\ clips' = [i \in 1..Len(clip_ids) |-> FindClip(clip_ids[i])]
            /\ last_ret' = Ret("reorder_clips", "ok")
       ELSE /\ clips' = clips
            /\ last_ret' = Ret("reorder_clips", "not_found")
    /\ UNCHANGED <<transitions, session, toggles, handles, next_uuid, task, commits>>

\* state.clips.len().saturating_sub(1)
SaturatingSub1(n) == IF n = 0 THEN 0 ELSE n - 1

\* transitions.truncate(max)
Truncate(seq, max) == IF Len(seq) > max THEN SubSeq(seq, 1, max) ELSE seq

\* delete_clip: retain the clips with another id, truncate the transitions
DeleteClip(clip_id) ==
    /\ LET kept == SelectSeq(clips, LAMBDA c : c.id # clip_id)
       IN  /\ clips' = kept
           /\ transitions' = Truncate(transitions, SaturatingSub1(Len(kept)))
    /\ last_ret' = Ret("delete_clip", "ok")
    /\ UNCHANGED <<session, toggles, handles, next_uuid, task, commits>>

\* set_clip_trim: the first clip with that id gets both values as passed;
\* an unknown id returns Err before anything is assigned
SetClipTrim(clip_id, trim_start_ms, trim_end_ms) ==
    /\ IF \E j \in 1..Len(clips) : clips[j].id = clip_id
       THEN LET i == CHOOSE j \in 1..Len(clips) :
                         /\ clips[j].id = clip_id
                         /\ \A k \in 1..(j - 1) : clips[k].id # clip_id
            IN  /\ clips' = [clips EXCEPT ![i].trim_start_ms = trim_start_ms,
                                          ![i].trim_end_ms = trim_end_ms]
                /\ last_ret' = Ret("set_clip_trim", "ok")
       ELSE /\ clips' = clips
            /\ last_ret' = Ret("set_clip_trim", "not_found")
    /\ UNCHANGED <<transitions, session, toggles, handles, next_uuid, task, commits>>

\* ---------------------------------------------------------------- toggles
\* the settings commands are explored only early in a run
SettingsOpen == next_uuid <= MaxSettingsSession

\* set_audio_source
SetAudioSource(source) ==
    /\ SettingsOpen
    /\ audio_source' = source
    /\ last_ret' = Ret("set_audio_source", "ok")
    /\ UNCHANGED <<keystroke_enabled, cursor_zoom_enabled, session, repo, handles,
                   next_uuid, task, commits>>

\* toggle_keystroke_display
ToggleKeystrokeDisplay ==
    /\ SettingsOpen
    /\ keystroke_enabled' = ~keystroke_enabled
    /\ last_ret' = Ret("toggle_keystroke_display", "ok")
    /\ UNCHANGED <<audio_source, cursor_zoom_enabled, session, repo, handles,
                   next_uuid, task, commits>>

\* toggle_cursor_zoom
ToggleCursorZoom ==
    /\ SettingsOpen
    /\ cursor_zoom_enabled' = ~cursor_zoom_enabled
    /\ last_ret' = Ret("toggle_cursor_zoom", "ok")
    /\ UNCHANGED <<audio_source, keystroke_enabled, session, repo, handles,
                   next_uuid, task, commits>>

\* ------------------------------------------------------------ specification
\* the session machine with its capture settings
Next ==
    \/ /\ Start
       /\ UNCHANGED <<call, env>>
    \/ /\ Resume
       /\ UNCHANGED <<call, env>>
    \/ /\ Cancel
       /\ UNCHANGED <<call, env>>
    \/ /\ \E t \in Tasks : Pause(t)
       /\ UNCHANGED <<call, env>>
    \/ /\ \E t \in Tasks : Stop(t)
       /\ UNCHANGED <<call, env>>
    \/ /\ \E source \in AudioSource : SetAudioSource(source)
       /\ UNCHANGED <<call, env>>
    \/ /\ ToggleKeystrokeDisplay
       /\ UNCHANGED <<call, env>>
    \/ /\ ToggleCursorZoom
       /\ UNCHANGED <<call, env>>

Spec == Init /\ [][Next]_vars

\* the session machine (video only) with the clip repository commands
NextRepo ==
    \/ /\ Start
       /\ UNCHANGED <<call, env>>
    \/ /\ Resume
       /\ UNCHANGED <<call, env>>
    \/ /\ Cancel
       /\ UNCHANGED <<call, env>>
    \/ /\ \E t \in Tasks : Pause(t)
       /\ UNCHANGED <<call, env>>
    \/ /\ \E t \in Tasks : Stop(t)
       /\ UNCHANGED <<call, env>>
    \/ /\ \E ids \in IdLists : ReorderClips(ids)
       /\ UNCHANGED <<call, env>>
    \/ /\ \E id \in ClipIds : DeleteClip(id)
       /\ UNCHANGED <<call, env>>

SpecRepo == Init /\ [][NextRepo]_vars

\* recording without pauses, with the trim command on the recorded clips
NextTrim ==
    \/ /\ Start
       /\ UNCHANGED <<call, env>>
    \/ /\ \E t \in Tasks : Stop(t)
       /\ UNCHANGED <<call, env>>
    \/ /\ \E id \in ClipIds, trim_start_ms, trim_end_ms \in 0..MaxTrimMs :
             SetClipTrim(id, trim_start_ms, trim_end_ms)
       /\ UNCHANGED <<call, env>>

SpecTrim == Init /\ [][NextTrim]_vars

\* ------------------------------------------------- export: the filter graph
\* Times are exact multiples of 1/SubMs millisecond ("ticks"), so that a
\* probed duration can fall between two milliseconds; trim values are whole
\* milliseconds.  A decimal text with three fractional digits is the integer
\* number of thousandths it denotes.  Only the video part of the graph is
\* modelled (clips without audio tracks, no overlays).

\* const TRANSITION_DURATION: f64 = 0.5, in milliseconds
TRANSITION_DURATION == 500

TransitionType == {"Fade", "Zoom", "Cut"}

\* the trim windows and probed durations the clips of a timeline are drawn from
TrimWindows == {<<0, 0>>, <<1000, 4000>>, <<5000, 5000>>}
ProbedDurations == {5000 * SubMs, 5000 * SubMs + 1}
ClipInputs ==
    { [trim_start_ms |-> w[1], trim_end_ms |-> w[2], probed |-> d] :
        w \in TrimWindows, d \in ProbedDurations }
TransitionLists ==
    UNION { [1..k -> [transition_type : TransitionType]] : k \in 0..MaxClips }

Max(a, b) == IF a >= b THEN a ELSE b

\* effective_duration without the .max(0.1)
EffectiveDurationUnclamped(clip, probed_duration) ==
    LET start == clip.trim_start_ms * SubMs
        end == IF clip.trim_end_ms > 0 THEN clip.trim_end_ms * SubMs
               ELSE probed_duration
    IN  end - start

\* effective_duration(clip, probed_duration), in ticks
EffectiveDuration(clip, probed_duration) ==
    LET start == clip.trim_start_ms * SubMs
        end == IF clip.trim_end_ms > 0 THEN clip.trim_end_ms * SubMs
               ELSE probed_duration
    IN  Max(end - start, 100 * SubMs)

\* all_cuts(transitions)
all_cuts(ts) == \A k \in 1..Len(ts) : ts[k].transition_type = "Cut"

\* xfade_name(t)
xfade_name(t) ==
    CASE t = "Fade" -> "fade"
      [] t = "Zoom" -> "zoomin"
      [] OTHER -> "fade"

\* format!("{:.3}", v): the nearest thousandth, an exact tie going to the
\* even digit
Format3(v) ==
    LET q == v \div SubMs
        r == v % SubMs
    IN  IF 2 * r < SubMs THEN q
        ELSE IF 2 * r > SubMs THEN q + 1
        ELSE IF q % 2 = 0 THEN q ELSE q + 1

\* labels "[s{i}]", "[v{i}]", "[vout]"
Label(l, i) == [l |-> l, i |-> i]

\* build_clip_chain(i, ..): the chain of clip i, ending in "[s{i}]"
ClipChain(i) == [op |-> "chain", out |-> Label("s", i)]

\* every transition, a cut too, taking its duration off the running offset
OverlapAlways(transition_type) == TRANSITION_DURATION * SubMs

\* what one transition takes off the running offset: a cut nothing, any other
\* transition its duration
Overlap(transition_type) ==
    IF transition_type = "Cut" THEN 0 ELSE TRANSITION_DURATION * SubMs

\* transitions.get(i).map(|t| &t.transition_type).unwrap_or(&Fade), i from 0
TransitionAt(ts, i) ==
    IF i + 1 <= Len(ts) THEN ts[i + 1].transition_type ELSE "Fade"

\* the timeline a call is made with: clips (with the duration ffprobe will
\* report for each) and transitions
GraphCall(fn, cs, ts) ==
    [fn |-> fn, pc |-> "probe", clips |-> cs, transitions |-> ts,
     eff_durations |-> <<>>, filters |-> <<>>, i |-> 0,
     cumulative_offset |-> 0, prev_label |-> Label("s", 0)]

InitGraph ==
    /\ AppStateDefault
    /\ call \in { GraphCall(fn, cs, ts) :
                    fn \in {"export_mp4", "preview_mp4"},
                    cs \in UNION { [1..n -> ClipInputs] : n \in 2..MaxClips },
                    ts \in TransitionLists }

\* export_mp4 509-515 / preview_mp4 1000-1005: probe every clip, then map
\* effective_duration over the clips
EffDurations ==
    /\ call.fn \in {"export_mp4", "preview_mp4"} /\ call.pc = "probe"
    /\ call' = [call EXCEPT
                  !.eff_durations =
                      [k \in 1..Len(call.clips) |->
                          EffectiveDuration(call.clips[k], call.clips[k].probed)],
                  !.pc = IF call.fn = "export_mp4" /\ all_cuts(call.transitions)
                         THEN "concat" ELSE "chains"]
    /\ UNCHANGED <<repo, session, toggles, handles, next_uuid, task, last_ret, commits,
                   env>>

\* export_with_concat: the clip chains, then one concat node over all of them
ExportWithConcat ==
    /\ call.fn = "export_mp4" /\ call.pc = "concat"
    /\ LET n == Len(call.clips)
       IN  call' = [call EXCEPT
                      !.filters =
                          [k \in 1..n |-> ClipChain(k - 1)]
                          \o << [op |-> "concat", n |-> n,
                                 inputs |-> [k \in 1..n |-> Label("s", k - 1)],
                                 out |-> Label("vout", 0)] >>,
                      !.pc = "built"]
    /\ UNCHANGED <<repo, session, toggles, handles, next_uuid, task, last_ret, commits,
                   env>>

\* build_filter_complex_with_trim, up to the transition loop
BuildClipChains ==
    /\ call.fn \in {"export_mp4", "preview_mp4"} /\ call.pc = "chains"
    /\ call' = [call EXCEPT
                  !.filters = [k \in 1..Len(call.clips) |-> ClipChain(k - 1)],
                  !.prev_label = Label("s", 0),
                  !.cumulative_offset = 0,
                  !.i = 0,
                  !.pc = "loop"]
    /\ UNCHANGED <<repo, session, toggles, handles, next_uuid, task, last_ret, commits,
                   env>>

\* one iteration of `for i in 0..(n - 1)`
ChainTransition ==
    /\ call.fn \in {"export_mp4", "preview_mp4"} /\ call.pc = "loop"
    /\ call.i < Len(call.clips) - 1
    /\ LET i == call.i
           transition_type == TransitionAt(call.transitions, i)
           cumulative_offset == call.cumulative_offset
                                + call.eff_durations[i + 1] - Overlap(transition_type)
           out_label == Label("v", i)
           next_input == Label("s", i + 1)
           node == IF transition_type = "Cut"
                   THEN [op |-> "concat", n |-> 2,
                         inputs |-> <<call.prev_label, next_input>>,
                         out |-> out_label]
                   ELSE [op |-> "xfade", transition |-> xfade_name(transition_type),
                         duration |-> TRANSITION_DURATION,
                         offset |-> Format3(cumulative_offset),
                         inputs |-> <<call.prev_label, next_input>>,
                         out |-> out_label]
       IN  call' = [call EXCEPT
                      !.cumulative_offset = cumulative_offset,
                      !.filters = Append(call.filters, node),
                      !.prev_label = out_label,
                      !.i = i + 1]
    /\ UNCHANGED <<repo, session, toggles, handles, next_uuid, task, last_ret, commits,
                   env>>

\* filters.join(";") once the loop is over
ChainJoined ==
    /\ call.fn \in {"export_mp4", "preview_mp4"} /\ call.pc = "loop"
    /\ call.i = Len(call.clips) - 1
    /\ call' = [call EXCEPT !.pc = "built"]
    /\ UNCHANGED <<repo, session, toggles, handles, next_uuid, task, last_ret, commits,
                   env>>

NextGraph ==
    \/ EffDurations
    \/ ExportWithConcat
    \/ BuildClipChains
    \/ ChainTransition
    \/ ChainJoined

SpecGraph == InitGraph /\ [][NextGraph]_vars

\* ------------------------------------------------------ export: the driver
\* One call of export_mp4, export_gif or preview_mp4, followed from its
\* argument checks to its return: the external processes it spawns, the
\* progress values it emits, and the two intermediate files of a GIF export.
\* Clip files do not change during the call.

ExportFns == {"export_mp4", "export_gif", "preview_mp4"}

\* the clips of an exported timeline: a trim window, the duration ffprobe
\* reports, and whether clip.path exists
ExportClips ==
    { [trim_start_ms |-> w[1], trim_end_ms |-> w[2], probed |-> 5000 * SubMs,
       exists |-> e] : w \in TrimWindows, e \in BOOLEAN }
ExportTransitions ==
    UNION { [1..k -> [transition_type : {"Fade", "Cut"}]] : k \in 0..(MaxExportClips - 1) }

\* the elapsed-time markers ("time=HH:MM:SS.ff") the encoder may print, in ticks
TimeMarkers == {0, 2500 * SubMs, 20000 * SubMs}

\* what a call returns
Ok == [res |-> "ok", msg |-> "none", clip |-> 0]
Err(msg) == [res |-> "err", msg |-> msg, clip |-> 0]
ErrClip(msg, k) == [res |-> "err", msg |-> msg, clip |-> k]
Running == [res |-> "none", msg |-> "none", clip |-> 0]

ExportCall(fn, cs, ts) ==
    [fn |-> fn, pc |-> "check", clips |-> cs, transitions |-> ts,
     emitted |-> <<>>, spawned |-> 0, lines |-> 0, total_duration |-> 0,
     files |-> {}, ret |-> Running]

InitExport ==
    /\ AppStateDefault
    /\ call \in { ExportCall(fn, cs, ts) :
                    fn \in ExportFns,
                    cs \in UNION { [1..n -> ExportClips] : n \in 0..MaxExportClips },
                    ts \in ExportTransitions }

\* the loop `for (i, clip) in clips.iter().enumerate()` skipped: no clip is
\* ever reported missing
NoneMissing(cs) == {}

\* the clips whose file does not exist, by position from 1
Missing(cs) == { k \in 1..Len(cs) : ~cs[k].exists }

Min(a, b) == IF a <= b THEN a ELSE b

\* (time / total_duration * 100.0).min(100.0) as u32: a division by zero gives
\* +inf or NaN, both of which .min(100.0) turns into 100; the cast of a
\* negative value saturates at 0
Progress(time, total_duration) ==
    IF total_duration > 0 THEN Min((time * 100) \div total_duration, 100)
    ELSE IF total_duration = 0 THEN 100
    ELSE 0

RECURSIVE SumTo(_, _)
SumTo(ds, k) == IF k = 0 THEN 0 ELSE SumTo(ds, k - 1) + ds[k]

\* eff_durations.iter().sum() - non-cut transitions * TRANSITION_DURATION
TotalDuration(cs, ts) ==
    SumTo([k \in 1..Len(cs) |-> EffectiveDuration(cs[k], cs[k].probed)], Len(cs))
    - Cardinality({ k \in 1..Len(ts) : ts[k].transition_type # "Cut" })
      * TRANSITION_DURATION * SubMs

Emit(c, v) == [c EXCEPT !.emitted = Append(@, v)]

\* a render (export_single_clip, export_mp4, export_with_concat or a preview)
\* returning `res`: inside export_gif an error is passed on by `?` and a
\* success goes on to emit 50 and to the palette pass
Return(c, res) ==
    IF c.fn = "export_gif" /\ res = Ok
    THEN [Emit(c, 50) EXCEPT !.pc = "palette"]
    ELSE [c EXCEPT !.pc = "done", !.ret = res]

\* the file a render writes: an encoder that ran and failed may or may not
\* have left it; only the intermediate video of a GIF export is followed
Rendered(c, left) == IF c.fn = "export_gif" /\ left THEN c.files \cup {"temp_mp4"} ELSE c.files

\* export_mp4 492-506, export_gif 929-938, preview_mp4 993-998
ExportCheck ==
    /\ call.fn \in ExportFns /\ call.pc = "check"
    /\ LET n == Len(call.clips)
           missing == IF call.fn = "preview_mp4" THEN {} ELSE Missing(call.clips)
           first == CHOOSE k \in missing : \A j \in missing : k <= j
       IN  call' =
             IF n = 0 THEN [call EXCEPT !.pc = "done", !.ret = Err("no_clips")]
             ELSE IF missing # {}
             THEN [call EXCEPT !.pc = "done", !.ret = ErrClip("file_not_found", first)]
             ELSE LET c == IF call.fn = "export_gif" THEN Emit(call, 5) ELSE call
                  IN  [c EXCEPT !.pc = IF n = 1 THEN "single" ELSE "probe"]
    /\ UNCHANGED <<repo, session, toggles, handles, next_uuid, task, last_ret, commits,
                   env>>

\* export_single_clip 794 / preview_single_clip 1067
SingleBegin ==
    /\ call.pc = "single"
    /\ call' = [Emit(call, 10) EXCEPT !.pc = "single_run"]
    /\ UNCHANGED <<repo, session, toggles, handles, next_uuid, task, last_ret, commits,
                   env>>

\* export_single_clip 895-912 / preview_single_clip 1088-1097: .output()
SingleRun ==
    /\ call.pc = "single_run"
    /\ \E out \in {"no_spawn", "failed", "ok"}, left \in BOOLEAN :
         /\ out = "no_spawn" => ~left
         /\ out = "ok" => left
         /\ LET c == [call EXCEPT !.spawned = IF out = "no_spawn" THEN @ ELSE @ + 1,
                                  !.files = Rendered(call, left)]
            IN  call' = CASE out = "no_spawn" -> Return(c, Err("spawn"))
                          [] out = "failed" -> Return(c, Err("exit_code"))
                          [] OTHER -> Return(Emit(c, 100), Ok)
    /\ UNCHANGED <<repo, session, toggles, handles, next_uuid, task, last_ret, commits,
                   env>>

\* export_mp4 509-521 / preview_mp4 1000-1005: probe every clip (ffprobe),
\* then take the all-cut branch or go on to spawn the encoder
ProbeDurations ==
    /\ call.pc = "probe"
    /\ \E probed_ok \in BOOLEAN :
         call' =
           IF ~probed_ok
           THEN Return([call EXCEPT !.spawned = @ + 1], Err("ffprobe"))
           ELSE [call EXCEPT
                   !.spawned = @ + Len(call.clips),
                   !.total_duration = TotalDuration(call.clips, call.transitions),
                   !.pc = IF call.fn # "preview_mp4" /\ all_cuts(call.transitions)
                          THEN "concat_run" ELSE "spawn"]
    /\ UNCHANGED <<repo, session, toggles, handles, next_uuid, task, last_ret, commits,
                   env>>

\* export_with_concat 763-779: .output()
ConcatRun ==
    /\ call.pc = "concat_run"
    /\ \E out \in {"no_spawn", "failed", "ok"}, left \in BOOLEAN :
         /\ out = "no_spawn" => ~left
         /\ out = "ok" => left
         /\ LET c == [call EXCEPT !.spawned = IF out = "no_spawn" THEN @ ELSE @ + 1,
                                  !.files = Rendered(call, left)]
            IN  call' = CASE out = "no_spawn" -> Return(c, Err("spawn"))
                          [] out = "failed" -> Return(c, Err("exit_code"))
                          [] OTHER -> Return(Emit(c, 100), Ok)
    /\ UNCHANGED <<repo, session, toggles, handles, next_uuid, task, last_ret, commits,
                   env>>

\* export_mp4 625-631 / preview_mp4 1036-1039: .spawn()
EncoderSpawn ==
    /\ call.pc = "spawn"
    /\ \E spawn_ok \in BOOLEAN :
         call' = IF spawn_ok
                 THEN [call EXCEPT !.spawned = @ + 1, !.lines = 0, !.pc = "lines"]
                 ELSE Return(call, Err("spawn"))
    /\ UNCHANGED <<repo, session, toggles, handles, next_uuid, task, last_ret, commits,
                   env>>

\* export_mp4 640-648 / preview_mp4 1047-1055: one stderr line carrying a
\* time marker
EncoderLine ==
    /\ call.pc = "lines" /\ call.lines < MaxLines
    /\ \E time \in TimeMarkers :
         call' = [Emit(call, Progress(time, call.total_duration))
                    EXCEPT !.lines = @ + 1]
    /\ UNCHANGED <<repo, session, toggles, handles, next_uuid, task, last_ret, commits,
                   env>>

\* end of the stderr stream
EncoderEof ==
    /\ call.pc = "lines"
    /\ call' = [call EXCEPT !.pc = "wait"]
    /\ UNCHANGED <<repo, session, toggles, handles, next_uuid, task, last_ret, commits,
                   env>>

\* export_mp4 651-658 / preview_mp4 1058-1063: child.wait()
EncoderWait ==
    /\ call.pc = "wait"
    /\ \E out \in {"failed", "ok"}, left \in BOOLEAN :
         /\ out = "ok" => left
         /\ LET c == [call EXCEPT !.files = Rendered(call, left)]
            IN  call' = IF out = "ok" THEN Return(Emit(c, 100), Ok)
                        ELSE Return(c, Err("exit_code"))
    /\ UNCHANGED <<repo, session, toggles, handles, next_uuid, task, last_ret, commits,
                   env>>

\* export_gif 955-965: pass 1, the palette
GifPalette ==
    /\ call.fn = "export_gif" /\ call.pc = "palette"
    /\ \E out \in {"no_spawn", "failed", "ok"}, left \in BOOLEAN :
         /\ out = "no_spawn" => ~left
         /\ out = "ok" => left
         /\ LET c == [call EXCEPT
                        !.spawned = IF out = "no_spawn" THEN @ ELSE @ + 1,
                        !.files = IF left THEN @ \cup {"palette"} ELSE @]
            IN  call' = CASE out = "no_spawn" -> [c EXCEPT !.pc = "done", !.ret = Err("palette")]
                          [] out = "failed" -> [c EXCEPT !.pc = "done", !.ret = Err("palette")]
                          [] OTHER -> [Emit(c, 75) EXCEPT !.pc = "pass2"]
    /\ UNCHANGED <<repo, session, toggles, handles, next_uuid, task, last_ret, commits,
                   env>>

\* export_gif 967-982: pass 2, then the removal of both intermediate files
GifPass2 ==
    /\ call.fn = "export_gif" /\ call.pc = "pass2"
    /\ \E out \in {"no_spawn", "failed", "ok"} :
         call' =
           CASE out = "no_spawn" -> [call EXCEPT !.pc = "done", !.ret = Err("gif")]
             [] out = "failed" ->
                  [call EXCEPT !.spawned = @ + 1, !.files = {},
                               !.pc = "done", !.ret = Err("gif")]
             [] OTHER ->
                  [Emit([call EXCEPT !.spawned = @ + 1, !.files = {}], 100)
                     EXCEPT !.pc = "done", !.ret = Ok]
    /\ UNCHANGED <<repo, session, toggles, handles, next_uuid, task, last_ret, commits,
                   env>>

NextExport ==
    \/ ExportCheck
    \/ SingleBegin
    \/ SingleRun
    \/ ProbeDurations
    \/ ConcatRun
    \/ EncoderSpawn
    \/ EncoderLine
    \/ EncoderEof
    \/ EncoderWait
    \/ GifPalette
    \/ GifPass2

SpecExport == InitExport /\ [][NextExport]_vars

\* ------------------------------------------------ recording: concat_segments
\* One call of concat_segments.  Segment k holds the content <<k>> when its
\* file exists; `list` is the list file (output.with_extension("txt")) and
\* `output` the output file, each None or Some(content), a content being the
\* sequence of the segments it names or holds.

ConcatCall(exists) ==
    [fn |-> "concat_segments", pc |-> "begin", segments |-> exists,
     list |-> None, wrote |-> FALSE, output |-> None, ret |-> Running]

InitConcat ==
    /\ AppStateDefault
    /\ call \in { ConcatCall(exists) :
                    exists \in UNION { [1..n -> BOOLEAN] : n \in 0..MaxSegments } }

\* the segments the list names: those whose file exists, in order
RECURSIVE ListContent(_, _)
ListContent(exists, k) ==
    IF k = 0 THEN <<>>
    ELSE IF exists[k] THEN Append(ListContent(exists, k - 1), k)
    ELSE ListContent(exists, k - 1)

\* lines 398-413: the empty and single-segment cases, else the list file
ConcatSegmentsBegin ==
    /\ call.fn = "concat_segments" /\ call.pc = "begin"
    /\ LET n == Len(call.segments)
       IN  \E io_ok \in BOOLEAN :
             call' =
               IF n = 0 THEN [call EXCEPT !.pc = "done", !.ret = Err("no_segments")]
               ELSE IF n = 1
               THEN IF io_ok /\ call.segments[1]
                    THEN [call EXCEPT !.output = Some(<<1>>), !.pc = "done", !.ret = Ok]
                    ELSE [call EXCEPT !.pc = "done", !.ret = Err("copy")]
               ELSE IF io_ok
                    THEN [call EXCEPT !.list = Some(ListContent(call.segments, n)),
                                      !.wrote = TRUE, !.pc = "run"]
                    ELSE [call EXCEPT !.pc = "done", !.ret = Err("write")]
    /\ UNCHANGED <<repo, session, toggles, handles, next_uuid, task, last_ret, commits,
                   env>>

\* the removal of the list file at line 432
ListRemoved(list) == None

\* lines 415-439: run the encoder on the list, remove the list, report
ConcatSegmentsRun ==
    /\ call.fn = "concat_segments" /\ call.pc = "run"
    /\ \E out \in {"no_spawn", "failed", "ok"} :
         /\ out = "ok" => Unwrap(call.list) # <<>>
         /\ call' =
              CASE out = "no_spawn" ->
                     [call EXCEPT !.pc = "done", !.ret = Err("run")]
                [] out = "failed" ->
                     [call EXCEPT !.list = ListRemoved(@), !.pc = "done",
                                  !.ret = Err("exit_code")]
                [] OTHER ->
                     [call EXCEPT !.output = Some(Unwrap(call.list)),
                                  !.list = ListRemoved(@), !.pc = "done", !.ret = Ok]
    /\ UNCHANGED <<repo, session, toggles, handles, next_uuid, task, last_ret, commits,
                   env>>

NextConcat ==
    \/ ConcatSegmentsBegin
    \/ ConcatSegmentsRun

SpecConcat == InitConcat /\ [][NextConcat]_vars

\* --------------------------------------------------- capture: clamp_region
\* i32 and u32 are modelled RegionBits wide: an i32 ranges over
\* MinI32..MaxI32 and a u32 over 0..MaxU32.  `w += x` can overflow; whether an
\* overflow panics or wraps depends on the build (overflow-checks), so both
\* outcomes are kept.

RECURSIVE Pow2(_)
Pow2(n) == IF n = 0 THEN 1 ELSE 2 * Pow2(n - 1)

\* u32::MAX, i32::MAX, i32::MIN
MaxU32 == Pow2(RegionBits) - 1
MaxI32 == Pow2(RegionBits - 1) - 1
MinI32 == 0 - Pow2(RegionBits - 1)

\* the value an i32 holds after wrapping arithmetic
WrapI32(v) ==
    LET m == v % Pow2(RegionBits)
    IN  IF m > MaxI32 THEN m - Pow2(RegionBits) ELSE m

\* `u as i32` and `i as u32`
AsI32(u) == WrapI32(u)
AsU32(i) == i % Pow2(RegionBits)

\* `v & !1`
ClearBit0(v) == v - (v % 2)

\* `if w < 2 { w = 2; }` left out
Unfloored(w) == w

\* `if w < 2 { w = 2; }`
AtLeast2(w) == IF w < 2 THEN 2 ELSE w

\* types.rs Region
Regions ==
    [x : MinI32..MaxI32, y : MinI32..MaxI32, width : 0..MaxU32, height : 0..MaxU32]

\* `if x < 0 { w += x; x = 0; }` for one axis: the pair after the statement,
\* and whether the addition overflowed
ShrinkAxis(origin, w) ==
    IF origin < 0
    THEN [origin |-> 0, w |-> WrapI32(w + origin), overflow |-> w + origin < MinI32]
    ELSE [origin |-> origin, w |-> w, overflow |-> FALSE]

\* clamp_region(region), for a build that wraps on overflow
ClampRegionValue(region) ==
    LET ax == ShrinkAxis(region.x, AsI32(region.width))
        ay == ShrinkAxis(region.y, AsI32(region.height))
    IN  [x |-> ax.origin, y |-> ay.origin,
         width |-> ClearBit0(AsU32(AtLeast2(ax.w))),
         height |-> ClearBit0(AsU32(AtLeast2(ay.w)))]

\* whether `w += x` or `h += y` overflows on this region
Overflows(region) ==
    \/ ShrinkAxis(region.x, AsI32(region.width)).overflow
    \/ ShrinkAxis(region.y, AsI32(region.height)).overflow

InitRegion ==
    /\ AppStateDefault
    /\ call \in { [fn |-> "clamp_region", pc |-> "begin", region |-> r, out |-> None] :
                    r \in Regions }

\* the whole of clamp_region
ClampRegion ==
    /\ call.fn = "clamp_region" /\ call.pc = "begin"
    /\ \E overflow_checks \in BOOLEAN :
         call' = IF Overflows(call.region) /\ overflow_checks
                 THEN [call EXCEPT !.pc = "panicked"]
                 ELSE [call EXCEPT !.pc = "done",
                                   !.out = Some(ClampRegionValue(call.region))]
    /\ UNCHANGED <<repo, session, toggles, handles, next_uuid, task, last_ret, commits,
                   env>>

NextRegion == ClampRegion

SpecRegion == InitRegion /\ [][NextRegion]_vars

\* ------------------------------------------------- export: escape_drawtext
\* A text is the sequence of its characters.

\* the characters texts are drawn from: the four escaped ones and a plain one
TextChars == {"\\", "'", ":", "%", "a"}

Texts == UNION { [1..n -> TextChars] : n \in 0..MaxTextLen }

\* str::replace(from, to) for a one-character pattern
RECURSIVE Replace(_, _, _)
Replace(text, from, to) ==
    IF text = <<>> THEN <<>>
    ELSE (IF Head(text) = from THEN to ELSE <<Head(text)>>)
         \o Replace(Tail(text), from, to)

\* the four replacements with the backslash handled last
EscapeBackslashLast(text) ==
    Replace(Replace(Replace(Replace(text,
        "'", <<"'", "\\", "\\", "\\", "'", "'">>),
        ":", <<"\\", ":">>),
        "%", <<"%", "%">>),
        "\\", <<"\\", "\\">>)

\* escape_drawtext(text)
escape_drawtext(text) ==
    Replace(Replace(Replace(Replace(text,
        "\\", <<"\\", "\\">>),
        "'", <<"'", "\\", "\\", "\\", "'", "'">>),
        ":", <<"\\", ":">>),
        "%", <<"%", "%">>)

InitEscape ==
    /\ AppStateDefault
    /\ call \in { [fn |-> "escape_drawtext", pc |-> "begin", text |-> t, out |-> <<>>] :
                    t \in Texts }

EscapeDrawtext ==
    /\ call.fn = "escape_drawtext" /\ call.pc = "begin"
    /\ call' = [call EXCEPT !.pc = "done", !.out = escape_drawtext(call.text)]
    /\ UNCHANGED <<repo, session, toggles, handles, next_uuid, task, last_ret, commits,
                   env>>

NextEscape == EscapeDrawtext

SpecEscape == InitEscape /\ [][NextEscape]_vars

\* ------------------------------------------------ capture: modifier_prefix
VK_SHIFT == 16
VK_CTRL == 17
VK_ALT == 18
VK_LWIN == 91
VK_RWIN == 92

ModifierKeys == {VK_SHIFT, VK_CTRL, VK_ALT, VK_LWIN, VK_RWIN}

\* the orders in which modifier keys can have been pressed and still be held
PressOrders ==
    { o \in UNION { [1..n -> ModifierKeys] : n \in 0..MaxHeld } :
        \A i, j \in 1..Len(o) : i # j => o[i] # o[j] }

\* parts.join("+")
RECURSIVE Join(_, _)
Join(parts, sep) ==
    IF parts = <<>> THEN <<>>
    ELSE IF Len(parts) = 1 THEN parts
    ELSE <<Head(parts), sep>> \o Join(Tail(parts), sep)

\* the parts named in the order the keys went down
RECURSIVE PartsInPressOrder(_)
PartsInPressOrder(pressed) ==
    IF pressed = <<>> THEN <<>>
    ELSE LET name == CASE Head(pressed) = VK_CTRL -> "Ctrl"
                       [] Head(pressed) = VK_SHIFT -> "Shift"
                       [] Head(pressed) = VK_ALT -> "Alt"
                       [] OTHER -> "Win"
             rest == PartsInPressOrder(Tail(pressed))
         IN  IF \E k \in 1..Len(rest) : rest[k] = name THEN rest
             ELSE <<name>> \o rest

\* the four `if get_state(..) { parts.push(..) }` of modifier_prefix
PartsInFixedOrder(pressed) ==
    LET get_state(vk) == \E k \in 1..Len(pressed) : pressed[k] = vk
    IN  (IF get_state(VK_CTRL) THEN <<"Ctrl">> ELSE <<>>)
        \o (IF get_state(VK_SHIFT) THEN <<"Shift">> ELSE <<>>)
        \o (IF get_state(VK_ALT) THEN <<"Alt">> ELSE <<>>)
        \o (IF get_state(VK_LWIN) \/ get_state(VK_RWIN) THEN <<"Win">> ELSE <<>>)

\* modifier_prefix(get_state), get_state being "the key is in `pressed`"
modifier_prefix(pressed) ==
    LET parts == PartsInFixedOrder(pressed)
    IN  IF parts = <<>> THEN <<>> ELSE Append(Join(parts, "+"), "+")

InitPrefix ==
    /\ AppStateDefault
    /\ call \in { [fn |-> "modifier_prefix", pc |-> "begin", pressed |-> o, out |-> <<>>] :
                    o \in PressOrders }

ModifierPrefix ==
    /\ call.fn = "modifier_prefix" /\ call.pc = "begin"
    /\ call' = [call EXCEPT !.pc = "done", !.out = modifier_prefix(call.pressed)]
    /\ UNCHANGED <<repo, session, toggles, handles, next_uuid, task, last_ret, commits,
                   env>>

NextPrefix == ModifierPrefix

SpecPrefix == InitPrefix /\ [][NextPrefix]_vars

\* ------------------------------------ recording: the clock and the workers
\* What a session leaves outside AppState.  env.now is the monotonic clock
\* Instant::now() reads, in milliseconds; env.started[i] tells for
\* handles[i] the instant it was spawned at, the instant it was ended at,
\* the file it writes and the timestamps its poller has pushed.  Calls do
\* not overlap here: a call begins only when no pause or stop is in flight.

\* the file a process or worker spawned by this step writes: the segment of
\* the video process, the wav of an audio worker, nothing for a poller
StartedFile(kind) ==
    IF kind = "video" THEN current_clip_path'
    ELSE LET written == { p \in Range(audio_temp_paths') : p.ext = kind }
         IN  IF written = {} THEN None ELSE Some(CHOOSE p \in written : TRUE)

\* what a step of a command does outside AppState: every handle it ended
\* ends now, every handle it spawned starts now
Observe ==
    LET n == Len(handles)
        ended == [i \in 1..n |->
                    IF handles[i].stops = 0 /\ handles'[i].stops > 0
                    THEN [env.started[i] EXCEPT !.till = Some(env.now)]
                    ELSE env.started[i]]
        begun == [i \in 1..(Len(handles') - n) |->
                    [at |-> env.now, till |-> None,
                     file |-> StartedFile(handles'[n + i].kind),
                     events |-> <<>>]]
    IN  env' = [env EXCEPT !.started = ended \o begun]

\* start_time.elapsed().as_millis() for the Instant taken when handle
\* Unwrap(start_time) was spawned
Elapsed(start_time) == env.now - env.started[Unwrap(start_time)].at

\* the elapsed() readings of pause (line 144) and stop (line 255) are
\* readings of the clock
ElapsedRead(t) ==
    (task[t].pc = "blocking" /\ task'[t].pc = "lock2")
    => IF task[t].op = "pause"
       THEN task'[t].segment_ms = Elapsed(task[t].start_time)
       ELSE IsSome(task[t].start_time)
            => Unwrap(task'[t].clip).duration_ms
                 = task[t].accumulated_ms + Elapsed(task[t].start_time)

\* the segments whose elapsed time is still to be read
OpenSegments ==
    Held(recording_start)
        \cup UNION { Held(task[t].start_time) :
                        t \in { u \in Tasks : task[u].pc = "blocking" } }

\* one millisecond passes; no segment is left running for more than
\* MaxElapsedMs
Tick ==
    /\ env.now < MaxClock
    /\ \A c \in OpenSegments : env.now + 1 - env.started[c].at <= MaxElapsedMs
    /\ env' = [env EXCEPT !.now = @ + 1]
    /\ UNCHANGED <<repo, session, toggles, handles, next_uuid, task, last_ret, commits,
                   call>>

\* one round of a poller that finds a key pressed, or the cursor position:
\* it pushes an event stamped start_time.elapsed(), start_time being the
\* Instant start took (keystroke.rs 65-90, cursor.rs 28-41)
Poll(h) ==
    /\ handles[h].kind \in {"keystroke", "cursor"}
    /\ handles[h].stops = 0
    /\ Len(env.started[h].events) < MaxEvents
    /\ env' = [env EXCEPT !.started[h].events =
                              Append(@, env.now - env.started[h].at)]
    /\ UNCHANGED <<repo, session, toggles, handles, next_uuid, task, last_ret, commits,
                   call>>

\* no pause or stop is in flight
NoneInFlight == \A t \in Tasks : task[t].pc = "free"

\* the session machine with its capture settings, one call at a time, under
\* the clock
NextTimed ==
    \/ /\ NoneInFlight
       /\ Start
       /\ Observe
       /\ UNCHANGED call
    \/ /\ NoneInFlight
       /\ Resume
       /\ Observe
       /\ UNCHANGED call
    \/ /\ NoneInFlight
       /\ Cancel
       /\ Observe
       /\ UNCHANGED call
    \/ /\ \E t \in Tasks :
             /\ NoneInFlight \/ task[t].pc # "free"
             /\ Pause(t)
             /\ ElapsedRead(t)
       /\ Observe
       /\ UNCHANGED call
    \/ /\ \E t \in Tasks :
             /\ NoneInFlight \/ task[t].pc # "free"
             /\ Stop(t)
             /\ ElapsedRead(t)
       /\ Observe
       /\ UNCHANGED call
    \/ /\ \E source \in AudioSource : SetAudioSource(source)
       /\ UNCHANGED <<call, env>>
    \/ /\ ToggleKeystrokeDisplay
       /\ UNCHANGED <<call, env>>
    \/ /\ ToggleCursorZoom
       /\ UNCHANGED <<call, env>>
    \/ Tick
    \/ \E h \in 1..Len(handles) : Poll(h)

SpecTimed == Init /\ [][NextTimed]_vars

\* the session machine (video only) with overlapping calls, and what each
\* step does outside AppState; the clock is not advanced
NextSegments ==
    \/ /\ Start
       /\ Observe
       /\ UNCHANGED call
    \/ /\ Resume
       /\ Observe
       /\ UNCHANGED call
    \/ /\ Cancel
       /\ Observe
       /\ UNCHANGED call
    \/ /\ \E t \in Tasks : Pause(t)
       /\ Observe
       /\ UNCHANGED call
    \/ /\ \E t \in Tasks : Stop(t)
       /\ Observe
       /\ UNCHANGED call

SpecSegments == Init /\ [][NextSegments]_vars

\* ------------------------------------------- clip repository: delete_clip
\* a clip as a saved project holds it
RepoClip(n) == BuildClip(ClipPath(n), 1, <<>>, {})

\* the saved projects load_project can read: k recorded clips, the
\* transitions between them set to any type, any audio source
Projects ==
    UNION { [clips : {[i \in 1..k |-> RepoClip(i)]},
             transitions : [1..SaturatingSub1(k) -> [transition_type : TransitionType]],
             audio_source : AudioSource] : k \in 0..MaxRepoClips }

\* load_project: Err before the lock when the project cannot be read, else
\* the repository and the audio source are replaced by the project's
LoadProject ==
    /\ \/ /\ last_ret' = Ret("load_project", "read_failed")
          /\ UNCHANGED <<repo, audio_source>>
       \/ \E project \in Projects :
             /\ clips' = project.clips
             /\ transitions' = project.transitions
             /\ audio_source' = project.audio_source
             /\ last_ret' = Ret("load_project", "ok")
    /\ UNCHANGED <<keystroke_enabled, cursor_zoom_enabled, session, handles,
                   next_uuid, task, commits>>

\* a loaded repository and the delete_clip command
NextDelete ==
    \/ /\ LoadProject
       /\ UNCHANGED <<call, env>>
    \/ /\ \E id \in ClipIds : DeleteClip(id)
       /\ UNCHANGED <<call, env>>

SpecDelete == Init /\ [][NextDelete]_vars

\* ------------------------------------------ export: build_keystroke_filters
\* `events[..150]`
KEYSTROKE_CAP == 150

\* how long a caption stays up, in ms (`t + 1.5`)
CAPTION_MS == 1500

KeystrokeEvent(timestamp_ms, key_name) ==
    [timestamp_ms |-> timestamp_ms, key_name |-> key_name]

\* the events read from a clip's keystroke file
KeyEvents ==
    { KeystrokeEvent(ts, k) : ts \in {0, 1000, 3000}, k \in {<<"a">>, <<"C", "+", ":">>} }

\* short lists of any events, and long ones whose timestamps count up so that
\* every position is recognisable
EventLists ==
    UNION { [1..n -> KeyEvents] : n \in 0..MaxKeyEvents }
    \cup { [i \in 1..n |-> KeystrokeEvent(i, <<"a">>)] :
             n \in (KEYSTROKE_CAP - 1)..(KEYSTROKE_CAP + MaxKeyEvents) }

\* time offsets in ticks of 1/SubMs ms (f64 seconds in the code)
TimeOffsets == {0, 4500 * SubMs, 4500 * SubMs + 1}

\* the uncapped slice
EventsAll(events) == events

\* `if events.len() > 150 { &events[..150] } else { events }`
EventsToUse(events) ==
    IF Len(events) > KEYSTROKE_CAP THEN SubSeq(events, 1, KEYSTROKE_CAP) ELSE events

\* the drawtext filter of one event: the escaped text and the two bounds of
\* between(t, {t:.3}, {end_t:.3}), in ms as printed
Drawtext(event, t) ==
    [text |-> escape_drawtext(event.key_name),
     from |-> Format3(t),
     till |-> Format3(t + CAPTION_MS * SubMs)]

\* t of an event, in ticks: timestamp_ms / 1000.0 - trim_offset + time_offset
CaptionTime(event, time_offset, trim_start_ms) ==
    event.timestamp_ms * SubMs - trim_start_ms * SubMs + time_offset

\* the loop over events_to_use: `if t < 0.0 { continue; }`, else one push
build_keystroke_filters(events, time_offset, trim_start_ms) ==
    LET shown == SelectSeq(EventsToUse(events),
                           LAMBDA e : CaptionTime(e, time_offset, trim_start_ms) >= 0)
    IN  [j \in 1..Len(shown) |->
            Drawtext(shown[j], CaptionTime(shown[j], time_offset, trim_start_ms))]

InitKeys ==
    /\ AppStateDefault
    /\ call \in { [fn |-> "build_keystroke_filters", pc |-> "begin", events |-> e,
                   time_offset |-> o, trim_start_ms |-> s, out |-> <<>>] :
                    e \in EventLists, o \in TimeOffsets, s \in {0, 2000, 6000} }

BuildKeystrokeFilters ==
    /\ call.fn = "build_keystroke_filters" /\ call.pc = "begin"
    /\ call' = [call EXCEPT !.pc = "done",
                            !.out = build_keystroke_filters(call.events, call.time_offset,
                                                            call.trim_start_ms)]
    /\ UNCHANGED <<repo, session, toggles, handles, next_uuid, task, last_ret, commits,
                   env>>

NextKeys == BuildKeystrokeFilters

SpecKeys == InitKeys /\ [][NextKeys]_vars

\* ------------------------------- capture: the keystroke and cursor workers
VK_LBUTTON == 1
VK_A == 65
POLL_MS == 16
TRACK_MS == 100

\* the keys a poll looks at, in the order of `for vk in 0u32..256`: a mouse
\* button, a code without a name, a modifier and a letter
PolledKeys == <<VK_LBUTTON, 7, VK_SHIFT, VK_A>>

\* is_modifier(vk): the five constants and the left/right codes 0xA0..0xA5
is_modifier(vk) == vk \in ModifierKeys \cup (160..165)

\* vk_to_name(vk), for the polled keys; <<>> is String::new()
vk_to_name(vk) ==
    CASE vk = VK_LBUTTON -> <<"Clic">>
      [] vk = VK_A -> <<"A">>
      [] OTHER -> <<>>

\* what get_pressed reads for the modifiers when the prefix is composed
HeldAtPush == {<<>>, <<VK_SHIFT>>}

\* where the pointer can be, as fractions of the region after clamp(0.0, 1.0)
PointerAt == {0, 1}

CursorPosition(timestamp_ms, x, y) == [timestamp_ms |-> timestamp_ms, x |-> x, y |-> y]

\* the press that is pushed whatever the previous poll saw
PressedNow(pressed, was_pressed) == pressed

\* `if pressed && !was_pressed`
RisingEdge(pressed, was_pressed) == pressed /\ ~was_pressed

\* the join that returns at once
Detached(pc) == TRUE

\* h.join() returns once the thread's closure has returned
Joined(pc) == pc = "exited"

\* a worker just spawned by start_capture or start_tracking, and the caller
\* that will stop it; `seen` lists, poll by poll, the keys read as pressed
WorkerCall(fn) ==
    [fn |-> fn, pc |-> "check", stop_flag |-> FALSE, buffer |-> <<>>,
     prev_states |-> {}, vk |-> 0, now |-> 0, seen |-> <<>>, turns |-> 0,
     stopper |-> "idle", returned |-> <<>>]

InitWorkers ==
    /\ AppStateDefault
    /\ call \in { WorkerCall(fn) : fn \in {"start_capture", "start_tracking"} }

InWorker == call.fn \in {"start_capture", "start_tracking"}

\* `while !stop.load(Ordering::Relaxed)` reads true: the thread ends
WorkerExits ==
    /\ InWorker /\ call.pc = "check" /\ call.stop_flag
    /\ call' = [call EXCEPT !.pc = "exited"]
    /\ UNCHANGED <<repo, session, toggles, handles, next_uuid, task, last_ret, commits,
                   env>>

\* the flag reads false: one more turn of the loop
WorkerTurns ==
    /\ InWorker /\ call.pc = "check" /\ ~call.stop_flag
    /\ call.turns < MaxPolls
    /\ call' = [call EXCEPT !.pc = IF call.fn = "start_capture" THEN "scan" ELSE "sample",
                            !.vk = 1, !.turns = call.turns + 1,
                            !.seen = Append(call.seen, {})]
    /\ UNCHANGED <<repo, session, toggles, handles, next_uuid, task, last_ret, commits,
                   env>>

\* one key of `for vk in 0u32..256`, and the sleep after the last one
KeystrokeScan ==
    /\ call.fn = "start_capture" /\ call.pc = "scan"
    /\ \E pressed \in BOOLEAN, held \in HeldAtPush :
          LET vk == PolledKeys[call.vk]
              was_pressed == vk \in call.prev_states
              base_name == vk_to_name(vk)
              pushes == /\ RisingEdge(pressed, was_pressed)
                        /\ ~is_modifier(vk)
                        /\ base_name # <<>>
              key_name == modifier_prefix(held) \o base_name
              last == call.vk = Len(PolledKeys)
          IN  /\ ~pushes => held = <<>>
              /\ call' = [call EXCEPT
                    !.buffer = IF pushes
                               THEN Append(call.buffer, KeystrokeEvent(call.now, key_name))
                               ELSE call.buffer,
                    !.prev_states = IF pressed THEN call.prev_states \cup {vk}
                                    ELSE call.prev_states \ {vk},
                    !.seen[Len(call.seen)] = IF pressed THEN @ \cup {vk} ELSE @,
                    !.vk = IF last THEN 0 ELSE call.vk + 1,
                    !.pc = IF last THEN "check" ELSE "scan",
                    !.now = IF last THEN call.now + POLL_MS ELSE call.now]
    /\ UNCHANGED <<repo, session, toggles, handles, next_uuid, task, last_ret, commits,
                   env>>

\* one GetCursorPos, the push of the sample and the sleep
CursorSample ==
    /\ call.fn = "start_tracking" /\ call.pc = "sample"
    /\ \E ok \in BOOLEAN, x \in PointerAt, y \in PointerAt :
          /\ ~ok => x = 0 /\ y = 0
          /\ call' = [call EXCEPT
                !.buffer = IF ok THEN Append(call.buffer, CursorPosition(call.now, x, y))
                           ELSE call.buffer,
                !.vk = 0, !.pc = "check", !.now = call.now + TRACK_MS]
    /\ UNCHANGED <<repo, session, toggles, handles, next_uuid, task, last_ret, commits,
                   env>>

\* stop_capture / stop_tracking: `stop_flag.store(true, ..)`
StopSignals ==
    /\ InWorker /\ call.stopper = "idle"
    /\ call' = [call EXCEPT !.stopper = "signalled", !.stop_flag = TRUE]
    /\ UNCHANGED <<repo, session, toggles, handles, next_uuid, task, last_ret, commits,
                   env>>

\* `if let Some(h) = handle.join_handle.take() { let _ = h.join(); }`
StopJoins ==
    /\ InWorker /\ call.stopper = "signalled"
    /\ Joined(call.pc)
    /\ call' = [call EXCEPT !.stopper = "joined"]
    /\ UNCHANGED <<repo, session, toggles, handles, next_uuid, task, last_ret, commits,
                   env>>

\* `handle.events.lock().map(|e| e.clone()).unwrap_or_default()`
StopDrains ==
    /\ InWorker /\ call.stopper = "joined"
    /\ call' = [call EXCEPT !.stopper = "returned", !.returned = call.buffer]
    /\ UNCHANGED <<repo, session, toggles, handles, next_uuid, task, last_ret, commits,
                   env>>

NextWorkers ==
    \/ WorkerExits
    \/ WorkerTurns
    \/ KeystrokeScan
    \/ CursorSample
    \/ StopSignals
    \/ StopJoins
    \/ StopDrains

SpecWorkers == InitWorkers /\ [][NextWorkers]_vars

\* ------------------------------------------ export: build_cursor_zoom_filter
\* CURSOR_ZOOM = 1.15, in hundredths
CURSOR_ZOOM == 115

\* `if kf_x.len() >= 30 { break; }`
ZOOM_KEYFRAMES == 30

\* a sample's x and y are fractions of the frame; one frame is this many
\* units, so that 1/(2*zoom), 1 - 1/zoom and 0.10 are whole numbers of units
FrameUnits == 20 * CURSOR_ZOOM

\* `1.0 / (2.0 * CURSOR_ZOOM)` and `1.0 - 1.0 / CURSOR_ZOOM`
half_inv == (FrameUnits * 100) \div (2 * CURSOR_ZOOM)
max_frac == FrameUnits - (FrameUnits * 100) \div CURSOR_ZOOM

\* the samples of a cursor file: the middle of the frame, 2%, 10% and 50%
\* right of it, the left edge; the middle and 8% below it
ZoomSamples ==
    { CursorPosition(ts, x, y) :
        ts \in {0, 500, 1000, 2500},
        x \in {0, FrameUnits \div 2, (FrameUnits * 3) \div 5, FrameUnits},
        y \in {FrameUnits \div 2, (FrameUnits * 29) \div 50} }

\* tracks as the tracker writes them, in time order: short ones of any
\* samples, and long ones with one sample per second around the cap
Tracks ==
    { s \in UNION { [1..n -> ZoomSamples] : n \in 0..MaxTrack } :
        \A i \in 1..Len(s) - 1 : s[i].timestamp_ms <= s[i + 1].timestamp_ms }
    \cup { [i \in 1..n |-> CursorPosition(1000 * (i - 1),
                                          IF i % 2 = 0 THEN FrameUnits ELSE FrameUnits \div 2,
                                          FrameUnits \div 2)] :
             n \in (ZOOM_KEYFRAMES - 1)..(ZOOM_KEYFRAMES + MaxTrack) }

\* fold(.., f64::max) - fold(.., f64::min) over one coordinate
Spread(vals) ==
    (CHOOSE a \in vals : \A b \in vals : a >= b) - (CHOOSE a \in vals : \A b \in vals : a <= b)

\* the motion test read with "or"
BarelyMovedEither(dx, dy) == 10 * dx < FrameUnits \/ 10 * dy < FrameUnits

\* `(max_x - min_x) < 0.10 && (max_y - min_y) < 0.10`
BarelyMoved(dx, dy) == 10 * dx < FrameUnits /\ 10 * dy < FrameUnits

\* the samples with t >= 0, by position in the list
AfterTrim(positions, trim_start_ms) ==
    { i \in 1..Len(positions) : positions[i].timestamp_ms - trim_start_ms >= 0 }

\* `t.floor() as i64`
SecondOf(pos, trim_start_ms) == (pos.timestamp_ms - trim_start_ms) \div 1000

\* second_groups: the samples of each second that has any
second_groups(positions, trim_start_ms) ==
    LET kept == AfterTrim(positions, trim_start_ms)
    IN  [sec \in { SecondOf(positions[i], trim_start_ms) : i \in kept } |->
            { i \in kept : SecondOf(positions[i], trim_start_ms) = sec }]

\* the keys of the BTreeMap in ascending order, up to the break at 30
FirstSeconds(groups) ==
    LET secs == DOMAIN groups
        n == IF Cardinality(secs) > ZOOM_KEYFRAMES THEN ZOOM_KEYFRAMES ELSE Cardinality(secs)
    IN  [k \in 1..n |-> CHOOSE s \in secs : Cardinality({ r \in secs : r <= s }) = k]

RECURSIVE SumOver(_, _)
SumOver(f, idx) ==
    IF idx = {} THEN 0
    ELSE LET i == CHOOSE j \in idx : TRUE IN f[i] + SumOver(f, idx \ {i})

\* a / b printed to the nearest whole, ties to even
RoundedDiv(a, b) ==
    LET q == a \div b
        r == a % b
    IN  IF 2 * r < b THEN q
        ELSE IF 2 * r > b THEN q + 1
        ELSE IF q % 2 = 0 THEN q ELSE q + 1

\* `(avg - half_inv).clamp(0.0, max_frac)` of a group, as `{:.4}` prints it:
\* in ten-thousandths of the frame
CropOffset(vals, group) ==
    LET n == Cardinality(group)
        raw == SumOver(vals, group) - half_inv * n
        clamped == IF raw < 0 THEN 0 ELSE IF raw > max_frac * n THEN max_frac * n ELSE raw
    IN  RoundedDiv(clamped * 10000, n * FrameUnits)

build_cursor_zoom_filter(positions, trim_start_ms, width, height) ==
    IF positions = <<>> THEN None
    ELSE LET xs == [i \in 1..Len(positions) |-> positions[i].x]
             ys == [i \in 1..Len(positions) |-> positions[i].y]
         IN  IF BarelyMoved(Spread({ xs[i] : i \in 1..Len(xs) }),
                            Spread({ ys[i] : i \in 1..Len(ys) }))
             THEN None
             ELSE LET groups == second_groups(positions, trim_start_ms)
                      secs == FirstSeconds(groups)
                      kf == [k \in 1..Len(secs) |->
                                [t |-> secs[k],
                                 x |-> CropOffset(xs, groups[secs[k]]),
                                 y |-> CropOffset(ys, groups[secs[k]])]]
                  IN  IF kf = <<>> THEN None
                      ELSE Some([op |-> "crop", keyframes |-> kf,
                                 scale |-> <<width, height>>])

InitZoom ==
    /\ AppStateDefault
    /\ call \in { [fn |-> "build_cursor_zoom_filter", pc |-> "begin", positions |-> p,
                   trim_start_ms |-> s, out |-> None] :
                    p \in Tracks, s \in {0, 1000, 3000} }

BuildCursorZoomFilter ==
    /\ call.fn = "build_cursor_zoom_filter" /\ call.pc = "begin"
    /\ call' = [call EXCEPT !.pc = "done",
                            !.out = build_cursor_zoom_filter(call.positions,
                                        call.trim_start_ms, 1920, 1080)]
    /\ UNCHANGED <<repo, session, toggles, handles, next_uuid, task, last_ret, commits,
                   env>>

NextZoom == BuildCursorZoomFilter

SpecZoom == InitZoom /\ [][NextZoom]_vars

\* ------------------------------------- export: inputs, overlays and audio
\* export_mp4 with what SpecGraph leaves out: the audio tracks of the clips,
\* the keystroke captions and the watermark, and the labels handed to -map.
\* The subtitle list is empty.  An audio track was recorded along with its
\* clip: its file lasts as long as the clip's video file.

\* the clips of a timeline: a trim window with the probed duration, and for
\* each path in audio_paths whether the file exists
MixClips ==
    { [trim_start_ms |-> w[1], trim_end_ms |-> w[2], probed |-> w[3], audio_paths |-> a] :
        w \in {<<0, 0, 5000 * SubMs + 1>>, <<1000, 4000, 5000 * SubMs>>},
        a \in {<<>>, <<TRUE>>, <<FALSE>>, <<TRUE, TRUE>>} }

MixTransitions ==
    UNION { [1..k -> [transition_type : TransitionType]] : k \in 0..(MaxMixClips - 1) }

\* clip_keystrokes: no events at all, or one keystroke a second into clip 1
KeystrokeMaps ==
    { [k \in 1..MaxMixClips |-> <<>>],
      [k \in 1..MaxMixClips |-> IF k = 2 THEN <<KeystrokeEvent(1000, <<"a">>)>> ELSE <<>>] }

MixCall(cs, ts, wm, ks) ==
    GraphCall("export_mp4", cs, ts)
    @@ [watermark |-> wm, clip_keystrokes |-> ks, inputs |-> <<>>,
        audio_input_map |-> <<>>, output_label |-> Label("none", 0),
        audio_output_label |-> None, maps |-> <<>>]

InitMix ==
    /\ AppStateDefault
    /\ call \in { MixCall(cs, ts, wm, ks) :
                    cs \in UNION { [1..n -> MixClips] : n \in 2..MaxMixClips },
                    ts \in MixTransitions, wm \in BOOLEAN, ks \in KeystrokeMaps }

\* `clips.iter().any(|c| !c.audio_paths.is_empty())`
has_any_audio(cs) == \E k \in 1..Len(cs) : cs[k].audio_paths # <<>>

\* the positions in audio_paths of the files that exist, in order
ExistingTracks(clip) ==
    SelectSeq([j \in 1..Len(clip.audio_paths) |-> j], LAMBDA j : clip.audio_paths[j])

\* how many audio inputs the clips before clip k (from 1) have pushed
RECURSIVE PushedBefore(_, _)
PushedBefore(cs, k) ==
    IF k = 1 THEN 0
    ELSE PushedBefore(cs, k - 1) + Len(ExistingTracks(cs[k - 1]))

\* the `-i` arguments: one per clip, then one per existing audio file
RECURSIVE AudioArgs(_, _)
AudioArgs(cs, k) ==
    IF k > Len(cs) THEN <<>>
    ELSE LET tracks == ExistingTracks(cs[k])
         IN  [j \in 1..Len(tracks) |-> [kind |-> "audio", clip |-> k - 1, track |-> tracks[j]]]
             \o AudioArgs(cs, k + 1)

\* audio_input_map: for clip ci the input indices of its existing files,
\* counted on from num_video_inputs
AudioInputMap(cs) ==
    [k \in 1..Len(cs) |->
        [clip |-> k - 1,
         indices |-> [j \in 1..Len(ExistingTracks(cs[k])) |->
                        Len(cs) + PushedBefore(cs, k) + j - 1]]]

\* export_mp4 528-551 / export_with_concat 679-701: the encoder inputs
GatherInputs ==
    /\ call.fn = "export_mp4" /\ call.pc = "built"
    /\ LET any == has_any_audio(call.clips)
       IN  call' = [call EXCEPT
                      !.inputs = [k \in 1..Len(call.clips) |->
                                     [kind |-> "video", clip |-> k - 1, track |-> 0]]
                                 \o (IF any THEN AudioArgs(call.clips, 1) ELSE <<>>),
                      !.audio_input_map = IF any THEN AudioInputMap(call.clips) ELSE <<>>,
                      !.pc = "inputs"]
    /\ UNCHANGED <<repo, session, toggles, handles, next_uuid, task, last_ret, commits,
                   env>>

\* cumulative_time when the overlay loop reaches clip k (from 1): after
\* all-cut timelines every clip adds its effective duration, otherwise a
\* clip followed by a listed non-cut transition adds 0.5 s less
RECURSIVE OverlayTime(_, _)
OverlayTime(c, k) ==
    IF k = 1 THEN 0
    ELSE OverlayTime(c, k - 1) + c.eff_durations[k - 1]
         - (IF /\ ~all_cuts(c.transitions)
               /\ k - 1 <= Len(c.transitions)
               /\ c.transitions[k - 1].transition_type # "Cut"
            THEN TRANSITION_DURATION * SubMs ELSE 0)

\* the keystroke filters of clips k.., each with its cumulative_time
RECURSIVE KeystrokeOverlays(_, _)
KeystrokeOverlays(c, k) ==
    IF k > Len(c.clips) THEN <<>>
    ELSE build_keystroke_filters(c.clip_keystrokes[k], OverlayTime(c, k),
                                 c.clips[k].trim_start_ms)
         \o KeystrokeOverlays(c, k + 1)

\* the label one past the end of the chain
VideoFinalLabelNext(n) == Label("v", n - 1)

\* `if clips.len() == 2 { "[v0]" } else { format!("[v{}]", clips.len() - 2) }`
VideoFinalLabel(n) == Label("v", n - 2)

\* export_mp4 558-592 / export_with_concat 715-735: the global overlays
GlobalOverlays ==
    /\ call.fn = "export_mp4" /\ call.pc = "inputs"
    /\ LET video_final_label == IF all_cuts(call.transitions) THEN Label("vout", 0)
                                ELSE VideoFinalLabel(Len(call.clips))
           overlay_filters == KeystrokeOverlays(call, 1)
                              \o (IF call.watermark THEN <<[text |-> "ClipFlow"]>> ELSE <<>>)
       IN  call' = [call EXCEPT
                      !.filters = IF overlay_filters = <<>> THEN call.filters
                                  ELSE Append(call.filters,
                                              [op |-> "overlays",
                                               inputs |-> <<video_final_label>>,
                                               overlays |-> overlay_filters,
                                               out |-> Label("vfinal", 0)]),
                      !.output_label = IF overlay_filters = <<>> THEN video_final_label
                                       ELSE Label("vfinal", 0),
                      !.pc = "overlays"]
    /\ UNCHANGED <<repo, session, toggles, handles, next_uuid, task, last_ret, commits,
                   env>>

\* the silence that lasts a whole second longer
SilenceOverlong(dur) == Format3(dur) + 1000

\* `atrim=duration={dur:.3}`
Silence(dur) == Format3(dur)

\* build_audio_concat_filter(audio_input_map, eff_durations): one stage per
\* clip into [a{ci}], then the concat into [aout]; nothing if no clip has an
\* index
build_audio_concat_filter(audio_input_map, eff_durations) ==
    LET n == Len(audio_input_map)
        stage(k) ==
            LET indices == audio_input_map[k].indices
                dur == IF k <= Len(eff_durations) THEN eff_durations[k] ELSE 1000 * SubMs
            IN  IF indices = <<>>
                THEN [op |-> "anullsrc", duration |-> Silence(dur), streams |-> <<>>,
                      inputs |-> <<>>, out |-> Label("a", k - 1)]
                ELSE [op |-> IF Len(indices) = 1 THEN "anull" ELSE "amix",
                      duration |-> 0, streams |-> indices,
                      inputs |-> <<>>, out |-> Label("a", k - 1)]
        has_any == \E k \in 1..n : audio_input_map[k].indices # <<>>
    IN  IF ~has_any THEN <<>>
        ELSE [k \in 1..n |-> stage(k)]
             \o << [op |-> "concat", n |-> n,
                    inputs |-> [k \in 1..n |-> Label("a", k - 1)],
                    out |-> Label("aout", 0)] >>

\* export_mp4 594-610 / export_with_concat 737-753: the audio filter and the
\* -map arguments
AudioFilter ==
    /\ call.fn = "export_mp4" /\ call.pc = "overlays"
    /\ LET af == IF has_any_audio(call.clips)
                 THEN build_audio_concat_filter(call.audio_input_map, call.eff_durations)
                 ELSE <<>>
           audio_output_label == IF af # <<>> THEN Some(Label("aout", 0)) ELSE None
       IN  call' = [call EXCEPT
                      !.filters = call.filters \o af,
                      !.audio_output_label = audio_output_label,
                      !.maps = <<call.output_label>> \o audio_output_label,
                      !.pc = "mapped"]
    /\ UNCHANGED <<repo, session, toggles, handles, next_uuid, task, last_ret, commits,
                   env>>

NextMix ==
    \/ EffDurations
    \/ ExportWithConcat
    \/ BuildClipChains
    \/ ChainTransition
    \/ ChainJoined
    \/ GatherInputs
    \/ GlobalOverlays
    \/ AudioFilter

SpecMix == InitMix /\ [][NextMix]_vars

\* ------------------------------------------------------------- properties
\* C1 (as amended): of the stop calls that run concurrently on one session at
\* most one takes it; a stop call that begins while another stop call holds
\* the current session returns the not-recording error and takes nothing;
\* a stop call that took a session returns Ok and appends the clip of that
\* session, or returns the error of the capture process or of the clip file
\* and appends nothing; no session ever contributes two clips.
C1_SingleOwnerStop ==
    [][ /\ \A t, u \in Tasks :
              (/\ t # u
               /\ task'[t].op = "stop" /\ task'[t].pc # "free"
               /\ task'[u].op = "stop" /\ task'[u].pc # "free")
              => task'[t].took # task'[u].took
        /\ \A t \in Tasks :
              (/\ StopRejected(t) \/ StopLock1(t)
               /\ \E u \in InFlight("stop") : task[u].took = Some(next_uuid))
              => (last_ret' = Ret("stop", "not_recording") /\ UNCHANGED session)
        /\ \A t \in InFlight("stop") :
              task'[t].pc = "free"
              => \/ /\ last_ret' = Ret("stop", "ok")
                    /\ commits' = Append(commits, Unwrap(task[t].took))
                 \/ /\ last_ret'.op = "stop"
                    /\ last_ret'.res \in {"stop_failed", "no_file", "concat_failed"}
                    /\ commits' = commits
        /\ \A i, j \in 1..Len(commits') : i # j => commits'[i] # commits'[j]
      ]_vars

\* C1 witness: a stop call that has built its clip and is about to commit it,
\* after a second stop call on the same session was turned away
C1_Witness ==
    /\ last_ret = Ret("stop", "not_recording")
    /\ \E t \in Tasks :
          task[t].op = "stop" /\ task[t].pc = "lock2" /\ task[t].contended

\* C1 as stated: when two stop calls ran concurrently on one session, the
\* one that took it returns Ok with a Clip and the clip is appended
C1_ExactlyOneOk ==
    [][ \A t \in InFlight("stop") :
            (task[t].contended /\ task'[t].pc = "free")
            => /\ last_ret' = Ret("stop", "ok")
               /\ commits' = Append(commits, Unwrap(task[t].took))
      ]_vars

\* C2 as stated: once a pause or stop call has taken the video handle and
\* the start time of the current session, every other pause or stop call
\* that begins before it has finished returns the not-recording error and
\* takes nothing from the session
C2_SoleOwner ==
    [][ \A t \in Tasks :
            (/\ \/ PauseRejected(t) \/ PauseLock1(t)
                \/ StopRejected(t) \/ StopLock1(t)
             /\ \E u \in Tasks : /\ task[u].pc # "free"
                                 /\ IsSome(task[u].start_time)
                                 /\ task[u].took = Some(next_uuid))
            => (last_ret'.res = "not_recording" /\ UNCHANGED session)
      ]_vars

\* C3: start when the state is not Idle, pause when it is not Recording,
\* resume when it is not Paused and stop when it is Idle each return an
\* error and leave every field of the session state unchanged
C3_InvalidStateRejected ==
    [][ /\ (Start /\ recording_state # "Idle")
           => (last_ret'.op = "start" /\ last_ret'.res # "ok" /\ UNCHANGED session)
        /\ ((\E t \in Tasks : PauseRejected(t) \/ PauseLock1(t))
              /\ recording_state # "Recording")
           => (last_ret'.op = "pause" /\ last_ret'.res # "ok" /\ UNCHANGED session)
        /\ (Resume /\ recording_state # "Paused")
           => (last_ret'.op = "resume" /\ last_ret'.res # "ok" /\ UNCHANGED session)
        /\ ((\E t \in Tasks : StopRejected(t) \/ StopLock1(t))
              /\ recording_state = "Idle")
           => (last_ret'.op = "stop" /\ last_ret'.res # "ok" /\ UNCHANGED session)
      ]_vars

\* C3 witness: start was refused during a paused session that already has a
\* finished segment and accumulated time
C3_Witness ==
    /\ last_ret = Ret("start", "already_recording")
    /\ recording_state = "Paused"
    /\ recording_segments # <<>>
    /\ pause_accumulated_ms > 0

\* C4 as stated: cancel called while the state is Idle returns an error and
\* leaves the session state unchanged
C4_CancelIdleRejected ==
    [][ (Cancel /\ recording_state = "Idle")
        => (last_ret'.res # "ok" /\ UNCHANGED session)
      ]_vars

C6_SpawnFailureLeavesIdle ==
    [][ StartSpawnFailed
        => /\ last_ret'.op = "start" /\ last_ret'.res # "ok"
           /\ recording_state' = "Idle"
           /\ ffmpeg_process' = None
           /\ recording_start' = None
           /\ current_clip_path' = None
           /\ audio_handles' = <<>>
           /\ keystroke_handle' = None
           /\ cursor_handle' = None
           /\ handles' = handles
      ]_vars

\* C6 witness: the spawn failed with every capture channel switched on
C6_Witness ==
    /\ last_ret = Ret("start", "spawn_failed")
    /\ audio_source = "Both"
    /\ keystroke_enabled
    /\ cursor_zoom_enabled
    /\ recording_state = "Idle"

\* C7 as stated: no session operation waits for a process to exit or joins a
\* worker thread while it holds the session-state lock
C7_NoWaitUnderLock == ~last_ret.waited_locked

\* C8: every capture handle is stopped at most once, is held in at most one
\* place (a field of the session state or a local of one call in flight),
\* and is held nowhere once it has been stopped
C8_SingleOwnership ==
    \A i \in 1..Len(handles) :
        LET in_state == Cardinality(
                {k \in 1..4 : i \in Range(<<ffmpeg_process, audio_handles,
                                            keystroke_handle, cursor_handle>>[k])})
            in_calls == Cardinality(
                {c \in Tasks \X (1..4) :
                    i \in Range(<<task[c[1]].child, task[c[1]].audio_handles,
                                  task[c[1]].keystroke_handle,
                                  task[c[1]].cursor_handle>>[c[2]])})
            twice == \E j, k \in 1..Len(audio_handles) :
                        j # k /\ audio_handles[j] = i /\ audio_handles[k] = i
        IN  /\ handles[i].stops <= 1
            /\ in_state + in_calls <= 1
            /\ ~twice
            /\ handles[i].stops = 1 => in_state + in_calls = 0

\* C8 witness: a video process, an audio worker and a keystroke poller were
\* started, taken by a stop call and each stopped once
C8_Witness ==
    /\ \A i \in 1..Len(handles) : handles[i].stops = 1
    /\ {"video", "system", "keystroke"} \subseteq {handles[i].kind : i \in 1..Len(handles)}
    /\ \E t \in Tasks : task[t].op = "stop" /\ task[t].pc = "lock2"

\* a failed channel of kind `kind` left no handle and no temp path
ChannelAbsent(kind) ==
    /\ \A j \in 1..Len(audio_handles') : handles'[audio_handles'[j]].kind # kind
    /\ \A j \in 1..Len(audio_temp_paths') : audio_temp_paths'[j].ext # kind

\* C9: when an audio source or the keystroke poller fails to start during
\* start or resume, the call still returns Ok, the state is Recording with a
\* running video handle, and the failed channel has no handle and no temp path
C9_PartialStartSucceeds ==
    [][ /\ \A sys_ok, mic_ok, key_ok \in BOOLEAN :
              StartOk(sys_ok, mic_ok, key_ok)
              => /\ last_ret' = Ret("start", "ok")
                 /\ recording_state' = "Recording"
                 /\ IsSome(ffmpeg_process')
                 /\ handles'[Unwrap(ffmpeg_process')] = [kind |-> "video", stops |-> 0]
                 /\ (audio_source \in {"System", "Both"} /\ ~sys_ok)
                    => ChannelAbsent("system")
                 /\ (audio_source \in {"Microphone", "Both"} /\ ~mic_ok)
                    => ChannelAbsent("mic")
                 /\ (keystroke_enabled /\ ~key_ok) => keystroke_handle' = None
        /\ \A sys_ok, mic_ok \in BOOLEAN :
              ResumeOk(sys_ok, mic_ok)
              => /\ last_ret' = Ret("resume", "ok")
                 /\ recording_state' = "Recording"
                 /\ IsSome(ffmpeg_process')
                 /\ handles'[Unwrap(ffmpeg_process')] = [kind |-> "video", stops |-> 0]
                 /\ (audio_source \in {"System", "Both"} /\ ~sys_ok)
                    => ChannelAbsent("system")
                 /\ (audio_source \in {"Microphone", "Both"} /\ ~mic_ok)
                    => ChannelAbsent("mic")
      ]_vars

\* C9 witness: resume has returned Ok with both audio sources selected and
\* only the microphone worker started
C9_Witness ==
    /\ last_ret = Ret("resume", "ok")
    /\ recording_state = "Recording"
    /\ audio_source = "Both"
    /\ IsSome(ffmpeg_process)
    /\ Len(audio_handles) = 1
    /\ handles[audio_handles[1]].kind = "mic"

\* C10 as stated: after the commit at the end of stop and after delete_clip,
\* the number of transitions is max(0, number of clips - 1)
C10_TransitionCount ==
    [][ ((\E t \in Tasks : StopLock2(t)) \/ (\E id \in ClipIds : DeleteClip(id)))
        => Len(transitions') = (IF Len(clips') = 0 THEN 0 ELSE Len(clips') - 1)
      ]_vars

\* C11 as stated: every clip of the repository has trim_end_ms = 0 or
\* trim_end_ms > trim_start_ms, whatever clip commands were run
C11_TrimOrdered ==
    \A i \in 1..Len(clips) :
        clips[i].trim_end_ms = 0 \/ clips[i].trim_end_ms > clips[i].trim_start_ms

\* ---- the offset recurrence of the claim, over the inputs of the call
RECURSIVE ClaimOffset(_)
ClaimOffset(k) ==
    IF k = 0 THEN 0
    ELSE ClaimOffset(k - 1) + call.eff_durations[k]
         - (IF k <= Len(call.transitions)
               /\ call.transitions[k].transition_type = "Cut"
            THEN 0 ELSE TRANSITION_DURATION * SubMs)

\* node i (from 0) of the pairwise chain, once it has been pushed
ChainNodes == { i \in 0..(Len(call.clips) - 2) : Len(call.clips) + i + 1 <= Len(call.filters) }
ChainNode(i) == call.filters[Len(call.clips) + i + 1]
InChain == call.fn \in {"export_mp4", "preview_mp4"} /\ call.pc \in {"loop", "built"}
                /\ ~(\E k \in 1..Len(call.filters) : call.filters[k].op = "concat"
                                                      /\ call.filters[k].out.l = "vout")

\* C12 (as amended): in the pairwise chain the running offset follows the
\* recurrence offset_0 = 0, offset_i = offset_(i-1) + dur_(i-1) for a cut and
\* offset_(i-1) + dur_(i-1) - 0.5 s otherwise, and each cross-fade node i
\* carries offset_(i+1) rounded to the nearest millisecond
C12_OffsetRounded ==
    InChain =>
        /\ call.cumulative_offset = ClaimOffset(call.i)
        /\ \A i \in ChainNodes :
              ChainNode(i).op = "xfade" =>
                  /\ 2 * (ChainNode(i).offset * SubMs - ClaimOffset(i + 1)) <= SubMs
                  /\ 2 * (ClaimOffset(i + 1) - ChainNode(i).offset * SubMs) <= SubMs

\* C12 witness: a finished chain over three clips whose second node is a
\* cross-fade carrying a millisecond value that is not the running offset
C12_Witness ==
    /\ InChain /\ call.pc = "built" /\ Len(call.clips) = 3
    /\ ChainNode(1).op = "xfade"
    /\ ChainNode(1).offset * SubMs # ClaimOffset(2)

\* C12 as stated: each cross-fade node i carries exactly offset_(i+1)
C12_OffsetExact ==
    InChain =>
        \A i \in ChainNodes :
            ChainNode(i).op = "xfade" => ChainNode(i).offset * SubMs = ClaimOffset(i + 1)

\* the composition nodes of the graph: everything but the per-clip chains
CompositionNodes ==
    { k \in 1..Len(call.filters) : call.filters[k].op \in {"concat", "xfade"} }

\* C13 as stated, for a timeline of N >= 2 clips with its N-1 transitions: when
\* the graph of an export or preview is built, if every transition is Cut it
\* holds exactly one composition node, an N-way concat, and otherwise it is
\* the pairwise chain of N-1 nodes whose node i is a cross-fade exactly when
\* transition i is not Cut
C13_GraphShape ==
    (/\ call.fn \in {"export_mp4", "preview_mp4"} /\ call.pc = "built"
     /\ Len(call.transitions) = Len(call.clips) - 1)
    => LET n == Len(call.clips)
       IN  IF all_cuts(call.transitions)
           THEN /\ Cardinality(CompositionNodes) = 1
                /\ \A k \in CompositionNodes :
                      call.filters[k].op = "concat" /\ call.filters[k].n = n
           ELSE /\ Cardinality(CompositionNodes) = n - 1
                /\ \A i \in 0..(n - 2) :
                      /\ call.filters[n + i + 1].inputs[2] = Label("s", i + 1)
                      /\ call.filters[n + i + 1].op = "xfade"
                         <=> call.transitions[i + 1].transition_type # "Cut"

\* start and end of clip k of the call as the claim defines them, in ticks
ClaimStart(k) == call.clips[k].trim_start_ms * SubMs
ClaimEnd(k) ==
    IF call.clips[k].trim_end_ms > 0 THEN call.clips[k].trim_end_ms * SubMs
    ELSE call.clips[k].probed

\* C18: once the effective durations of a call are computed, each is the
\* larger of 0.1 s and end - start, with start the trim start and end the trim
\* end when that is positive and the probed duration otherwise; so none is
\* below 0.1 s
C18_EffectiveDuration ==
    (call.fn \in {"export_mp4", "preview_mp4"} /\ call.pc # "probe")
    => \A k \in 1..Len(call.clips) :
         LET d == call.eff_durations[k]
         IN  /\ d >= 100 * SubMs
             /\ d >= ClaimEnd(k) - ClaimStart(k)
             /\ d = 100 * SubMs \/ d = ClaimEnd(k) - ClaimStart(k)

\* C18 witness: effective durations computed for an untrimmed clip of 5.0 s
\* (5.0), a clip trimmed to 1000..4000 (3.0) and a clip whose trim window is
\* empty (raised to 0.1)
C18_Witness ==
    /\ call.fn \in {"export_mp4", "preview_mp4"} /\ call.pc # "probe"
    /\ Len(call.clips) = 3
    /\ call.clips[1] = [trim_start_ms |-> 0, trim_end_ms |-> 0, probed |-> 5000 * SubMs]
    /\ call.eff_durations[1] = 5000 * SubMs
    /\ call.clips[2].trim_start_ms = 1000 /\ call.clips[2].trim_end_ms = 4000
    /\ call.eff_durations[2] = 3000 * SubMs
    /\ call.clips[3].trim_start_ms = 5000 /\ call.clips[3].trim_end_ms = 5000
    /\ call.eff_durations[3] = 100 * SubMs

\* C14: an export (MP4 or GIF) of a timeline with a clip whose file does not
\* exist spawns no external process and emits no progress value, and returns
\* the file-not-found error naming the position (from 1) of the first such clip
C14_MissingClipFailsFast ==
    (/\ call.fn \in {"export_mp4", "export_gif"}
     /\ \E k \in 1..Len(call.clips) : ~call.clips[k].exists)
    => /\ call.spawned = 0
       /\ call.emitted = <<>>
       /\ call.pc \in {"check", "done"}
       /\ call.pc = "done" =>
             /\ call.ret.res = "err" /\ call.ret.msg = "file_not_found"
             /\ call.ret.clip \in 1..Len(call.clips)
             /\ ~call.clips[call.ret.clip].exists
             /\ \A j \in 1..(call.ret.clip - 1) : call.clips[j].exists

\* C14 witness: a GIF export of two clips, the second one missing, has
\* returned the error naming clip 2
C14_Witness ==
    /\ call.fn = "export_gif" /\ call.pc = "done"
    /\ Len(call.clips) = 2
    /\ call.clips[1].exists /\ ~call.clips[2].exists
    /\ call.ret = ErrClip("file_not_found", 2)
    /\ call.spawned = 0 /\ call.emitted = <<>>

\* C15 as stated: the progress values one export or preview call has emitted
\* so far never decrease and all lie in 0..100
C15_ProgressMonotonic ==
    call.fn \in ExportFns =>
        /\ \A k \in 1..Len(call.emitted) : call.emitted[k] \in 0..100
        /\ \A k \in 1..(Len(call.emitted) - 1) : call.emitted[k] <= call.emitted[k + 1]

\* C16 as stated: when export_gif has returned, with success or with an
\* error, neither the intermediate video nor the palette file exists
C16_GifLeavesNoFiles ==
    (call.fn = "export_gif" /\ call.pc = "done") => call.files = {}

\* C17 as stated: when concat_segments has returned for two or more segments,
\* with success or with any error, the list file it wrote does not exist; for
\* a single segment it writes no list file and on success the output is a
\* copy of that segment
C17_ListFileRemoved ==
    (call.fn = "concat_segments" /\ call.pc = "done")
    => /\ (Len(call.segments) >= 2 /\ call.wrote) => call.list = None
       /\ Len(call.segments) = 1 =>
             /\ ~call.wrote /\ call.list = None
             /\ call.ret = Ok => call.output = Some(<<1>>)

\* C19 as stated: for every input rectangle clamp_region returns, and the
\* rectangle it returns has a non-negative origin and a width and a height
\* that are both even and at least 2
C19_NormalizedRegion ==
    (call.fn = "clamp_region" /\ call.pc # "begin")
    => /\ call.pc = "done"
       /\ LET r == Unwrap(call.out)
          IN  /\ r.x >= 0 /\ r.y >= 0
              /\ r.width >= 2 /\ r.width % 2 = 0
              /\ r.height >= 2 /\ r.height % 2 = 0

\* a dimension read as a signed value of the same width, a sum wrapped into
\* the signed range, and a value rounded down to even
ClaimSigned(dim) == IF dim > MaxI32 THEN dim - (MaxU32 + 1) ELSE dim
ClaimWrapped(v) == ((v - MinI32) % (MaxU32 + 1)) + MinI32
ClaimEven(v) == 2 * (v \div 2)
ClaimAtLeast2(v) == IF v >= 2 THEN v ELSE 2

\* one axis of the amended claim: origin and dimension of the input, origin
\* and dimension of the result
ClaimAxis(origin, dim, out_origin, out_dim) ==
    IF origin >= 0
    THEN /\ out_origin = origin
         /\ out_dim = ClaimEven(ClaimAtLeast2(ClaimSigned(dim)))
    ELSE /\ out_origin = 0
         /\ out_dim = ClaimEven(ClaimAtLeast2(ClaimWrapped(ClaimSigned(dim) + origin)))

ClaimEscapeOf(ch) ==
    CASE ch = "\\" -> <<"\\", "\\">>
      [] ch = "'" -> <<"'", "\\", "\\", "\\", "'", "'">>
      [] ch = ":" -> <<"\\", ":">>
      [] ch = "%" -> <<"%", "%">>
      [] OTHER -> <<ch>>

RECURSIVE ClaimEscaped(_)
ClaimEscaped(text) ==
    IF text = <<>> THEN <<>> ELSE ClaimEscapeOf(Head(text)) \o ClaimEscaped(Tail(text))

\* C21: the escaped text is the original text with each backslash, single
\* quote, colon and percent sign replaced by its escape sequence and every
\* other character copied, character by character; nothing a replacement
\* inserted is escaped again
C21_EscapeCharByChar ==
    (call.fn = "escape_drawtext" /\ call.pc = "done")
    => call.out = ClaimEscaped(call.text)

\* C21 witness: the text  ' \ :  has been escaped; the backslashes the quote
\* and the colon brought in stand as they were inserted
C21_Witness ==
    /\ call.fn = "escape_drawtext" /\ call.pc = "done"
    /\ call.text = <<"'", "\\", ":">>
    /\ call.out = <<"'", "\\", "\\", "\\", "'", "'", "\\", "\\", "\\", ":">>

\* the prefix the claim fixes for a set of held modifiers
ClaimPrefix(held) ==
    (IF VK_CTRL \in held THEN <<"Ctrl", "+">> ELSE <<>>)
    \o (IF VK_SHIFT \in held THEN <<"Shift", "+">> ELSE <<>>)
    \o (IF VK_ALT \in held THEN <<"Alt", "+">> ELSE <<>>)
    \o (IF VK_LWIN \in held \/ VK_RWIN \in held THEN <<"Win", "+">> ELSE <<>>)

\* C22: the prefix lists exactly the held modifiers in the order Ctrl, Shift,
\* Alt, Win, each followed by '+', is empty when none is held, and is the
\* same for every order in which the held keys were pressed
C22_PrefixOrder ==
    (call.fn = "modifier_prefix" /\ call.pc = "done")
    => call.out = ClaimPrefix({ call.pressed[k] : k \in 1..Len(call.pressed) })

\* C22 witness: Win, Alt, Shift and Ctrl pressed in that order give
\* Ctrl+Shift+Alt+Win+
C22_Witness ==
    /\ call.fn = "modifier_prefix" /\ call.pc = "done"
    /\ call.pressed = <<VK_LWIN, VK_ALT, VK_SHIFT, VK_CTRL>>
    /\ call.out = <<"Ctrl", "+", "Shift", "+", "Alt", "+", "Win", "+">>

\* C23 as stated: the second critical section of a pause runs only while the
\* session in which the pause began is still the current one and has not
\* returned to Idle, and the second critical section of a stop does not
\* change pause_accumulated_ms or segment_index once a later session has
\* been started
C23_BookkeepingOwnSession ==
    [][ \A t \in Tasks :
          /\ PauseLock2(t) =>
                /\ recording_state # "Idle"
                /\ IsSome(current_clip_path)
                /\ Some(SessionOf(Unwrap(current_clip_path))) = task[t].took
          /\ StopLock2(t) =>
                (next_uuid # Unwrap(task[t].took)
                   => /\ pause_accumulated_ms' = pause_accumulated_ms
                      /\ segment_index' = segment_index)
      ]_vars


\* C26: in every state other lock holders can observe, the video handle and
\* the recording-start timestamp are present exactly when the state is
\* Recording, and the current clip path is present exactly when the state is
\* Recording or Paused
C26_PresenceMatchesState ==
    /\ IsSome(ffmpeg_process) <=> recording_state = "Recording"
    /\ IsSome(recording_start) <=> recording_state = "Recording"
    /\ IsSome(current_clip_path) <=> recording_state \in {"Recording", "Paused"}

\* C26 witness: a pause has finished: the state is Paused with the segment
\* recorded, the video handle and the timestamp gone and the clip path kept
C26_Witness ==
    /\ recording_state = "Paused"
    /\ last_ret.op = "pause" /\ last_ret.res = "ok"
    /\ Len(recording_segments) = 1
    /\ ffmpeg_process = None /\ recording_start = None
    /\ IsSome(current_clip_path)

\* the capture workers (audio workers, keystroke poller, cursor poller) that
\* were started and whose stop flag was never set
ClaimWorkersRunning ==
    { i \in 1..Len(handles) :
        handles[i].kind # "video" /\ handles[i].stops = 0 }

\* C27 as stated: when the state is Idle and no pause or stop is in flight,
\* every capture worker that was started has been signalled to stop
C27_NoWorkerOutlivesSession ==
    (recording_state = "Idle" /\ \A t \in Tasks : task[t].pc = "free")
    => ClaimWorkersRunning = {}

\* C29 as stated: the clip a stop has built carries the identity start
\* allocated for the session the stop took over
C29_ClipIdIsSessionId ==
    \A t \in Tasks :
        (task[t].op = "stop" /\ IsSome(task[t].clip))
        => Unwrap(task[t].clip).id = ClipPath(Unwrap(task[t].took)).stem

\* the video segments recorded in session `s`, in recording order
ClaimSegmentsOf(s) ==
    SelectSeq([i \in 1..Len(handles) |-> i],
              LAMBDA i : handles[i].kind = "video"
                         /\ SessionOf(Unwrap(env.started[i].file)) = s)

\* the time elapsed between the start and the end of each segment of
\* session `s`, summed over the first k of them
RECURSIVE ClaimElapsedSum(_, _)
ClaimElapsedSum(segs, k) ==
    IF k = 0 THEN 0
    ELSE ClaimElapsedSum(segs, k - 1)
           + Unwrap(env.started[segs[k]].till) - env.started[segs[k]].at

\* C24 as stated: the clip a stop has built, in a session whose calls did
\* not overlap, has for duration_ms the sum over the session's segments of
\* the time between the segment's start and its end
C24_DurationIsRecordedTime ==
    \A t \in Tasks :
        (task[t].op = "stop" /\ task[t].pc = "lock2")
        => LET segs == ClaimSegmentsOf(Unwrap(task[t].took))
           IN  Unwrap(task[t].clip).duration_ms = ClaimElapsedSum(segs, Len(segs))

\* C25 as stated: the list a stop hands to concat_segments is the list of
\* the session's video segments, each once, in recording order
C25_SegmentListComplete ==
    \A t \in Tasks :
        (task[t].op = "stop" /\ task[t].pc = "blocking" /\ task[t].segments # <<>>)
        => AllSegments(task[t].segments, Unwrap(task[t].clip_path), task[t].child)
             = [k \in 1..Len(ClaimSegmentsOf(Unwrap(task[t].took))) |->
                  Unwrap(env.started[ClaimSegmentsOf(Unwrap(task[t].took))[k]].file)]

\* C28 as stated: every audio file a worker of the session wrote is among
\* the paths the stop of that session lists in the clip
C28_AudioFilesListed ==
    \A t \in Tasks :
        (task[t].op = "stop" /\ task[t].pc = "blocking")
        => \A i \in 1..Len(handles) :
              (/\ handles[i].kind \in {"system", "mic"}
               /\ SessionOf(Unwrap(env.started[i].file)) = Unwrap(task[t].took))
              => Unwrap(env.started[i].file) \in Range(task[t].audio_temp_paths)

\* C30 as stated: when a stop collects the events of the keystroke and
\* cursor pollers for the clip it builds, no event is stamped later than
\* the clip's duration_ms
C30_EventsWithinDuration ==
    [][ \A t \in Tasks :
          StopBlocking(t)
          => \A h \in Held(task[t].keystroke_handle) \cup Held(task[t].cursor_handle) :
                \A k \in 1..Len(env.started[h].events) :
                   env.started[h].events[k] <= Unwrap(task'[t].clip).duration_ms
      ]_vars

\* C31 as stated: a successful reorder_clips leaves exactly the clips the
\* repository held, each once, in the order of the ids passed; a call naming
\* an unknown id returns an error and leaves the clip list unchanged
C31_ReorderPermutes ==
    [][ \A ids \in IdLists :
          ReorderClips(ids)
          => IF last_ret'.res = "ok"
             THEN /\ Len(clips') = Len(clips)
                  /\ \E f \in Permutations(1..Len(clips)) :
                        \A i \in 1..Len(clips) : clips'[i] = clips[f[i]]
                  /\ [i \in 1..Len(clips') |-> clips'[i].id] = ids
             ELSE clips' = clips
      ]_vars

\* C32 as stated: two clips adjacent before a delete_clip and still adjacent
\* after it have between them the transition they had before
C32_SurvivingTransitionsKept ==
    [][ \A id \in ClipIds :
          DeleteClip(id)
          => \A i \in 1..(Len(clips) - 1), j \in 1..(Len(clips') - 1) :
                (clips[i] = clips'[j] /\ clips[i + 1] = clips'[j + 1])
                => transitions'[j] = transitions[i]
      ]_vars

\* C36 as stated: every cross-fade offset emitted in the graph is
\* non-negative
C36_OffsetsNonNegative ==
    \A k \in 1..Len(call.filters) :
        call.filters[k].op = "xfade" => call.filters[k].offset >= 0
\* ---- C37: what the claim says of one call of build_keystroke_filters
ClaimKeysDone == call.fn = "build_keystroke_filters" /\ call.pc = "done"

\* t of the k-th event of the call, in ticks
ClaimT(k) ==
    (call.events[k].timestamp_ms - call.trim_start_ms) * SubMs + call.time_offset

\* the positions of the events that are considered and have t >= 0
ClaimCaptioned ==
    { k \in 1..Len(call.events) : k <= KEYSTROKE_CAP /\ ClaimT(k) >= 0 }

\* the position of the event behind the j-th caption: the j-th smallest member
ClaimEventOf(j) ==
    CHOOSE k \in ClaimCaptioned : Cardinality({ m \in ClaimCaptioned : m <= k }) = j

\* C37 (as amended): only the first 150 events of a clip are considered; each
\* considered event with t = timestamp - trim_start + offset >= 0 yields
\* exactly one caption, in event order, visible from t rounded to the nearest
\* millisecond for 1.5 s; an event with t < 0 yields none; at most 150 captions
C37_CaptionsRounded ==
    ClaimKeysDone =>
        /\ Len(call.out) = Cardinality(ClaimCaptioned)
        /\ Len(call.out) <= KEYSTROKE_CAP
        /\ \A j \in 1..Len(call.out) :
              LET t == ClaimT(ClaimEventOf(j))
              IN  /\ 2 * (call.out[j].from * SubMs - t) <= SubMs
                  /\ 2 * (t - call.out[j].from * SubMs) <= SubMs
                  /\ call.out[j].till = call.out[j].from + CAPTION_MS

\* C37 witness: a list longer than the cap, with an offset between two
\* milliseconds, gave 150 captions
C37_Witness ==
    /\ ClaimKeysDone
    /\ Len(call.events) > KEYSTROKE_CAP
    /\ Len(call.out) = KEYSTROKE_CAP
    /\ call.out[1].from * SubMs # ClaimT(1)

\* C37 as stated: every caption is visible during exactly [t, t + 1.5 s]
C37_CaptionsExact ==
    ClaimKeysDone =>
        /\ Len(call.out) = Cardinality(ClaimCaptioned)
        /\ \A j \in 1..Len(call.out) :
              LET t == ClaimT(ClaimEventOf(j))
              IN  /\ call.out[j].from * SubMs = t
                  /\ call.out[j].till * SubMs = t + CAPTION_MS * SubMs

\* ---- C38: the presses a poller has seen
ClaimPolling == call.fn = "start_capture"

\* the keys read as pressed at poll p; none before the first poll
ClaimSeen(p) == IF p = 0 THEN {} ELSE call.seen[p]

\* the rising edges of named non-modifier keys at poll p
ClaimEdges(p) ==
    { vk \in ClaimSeen(p) \ ClaimSeen(p - 1) :
        vk_to_name(vk) # <<>> /\ vk \notin ModifierKeys }

RECURSIVE ClaimEdgeCount(_)
ClaimEdgeCount(p) ==
    IF p = 0 THEN 0 ELSE ClaimEdgeCount(p - 1) + Cardinality(ClaimEdges(p))

\* C38: at every moment the poller has appended exactly one event per rising
\* edge of a named non-modifier key; a key that stays held and a modifier
\* pressed alone add nothing
C38_OneEventPerRisingEdge ==
    ClaimPolling => Len(call.buffer) = ClaimEdgeCount(Len(call.seen))

\* C38 witness: three polls saw a letter go down, stay down with the modifier
\* joining it, and go down again after a release; two events
C38_Witness ==
    /\ ClaimPolling /\ call.pc = "check" /\ Len(call.seen) = 3
    /\ call.seen[1] = {VK_A}
    /\ call.seen[2] = {VK_A, VK_SHIFT}
    /\ call.seen[3] = {VK_LBUTTON}
    /\ Len(call.buffer) = 2

\* C39: the list a stop returns holds every event the worker has appended, in
\* append order, at the return and ever after, and the worker has ended
C39_ReturnedIsEverything ==
    (InWorker /\ call.stopper = "returned") =>
        /\ call.returned = call.buffer
        /\ call.pc = "exited"

\* C39 witness: a stop came back with two entries
C39_Witness ==
    /\ InWorker /\ call.stopper = "returned"
    /\ Len(call.returned) = 2

\* ---- C40: what the claim says of one call of build_cursor_zoom_filter
ClaimZoomDone == call.fn = "build_cursor_zoom_filter" /\ call.pc = "done"

\* the largest difference of a coordinate between two samples of the call
ClaimRangeX ==
    { call.positions[i].x - call.positions[j].x : i, j \in 1..Len(call.positions) }

ClaimRangeY ==
    { call.positions[i].y - call.positions[j].y : i, j \in 1..Len(call.positions) }

\* the 1-second bins, counted from the trim start, that hold a sample
ClaimBins ==
    { (call.positions[i].timestamp_ms - call.trim_start_ms) \div 1000 :
        i \in { j \in 1..Len(call.positions) :
                  call.positions[j].timestamp_ms >= call.trim_start_ms } }

\* the samples of bin b
ClaimBin(b) ==
    { i \in 1..Len(call.positions) :
        /\ call.positions[i].timestamp_ms >= call.trim_start_ms + 1000 * b
        /\ call.positions[i].timestamp_ms < call.trim_start_ms + 1000 * (b + 1) }

\* v, in ten-thousandths of the frame, is the crop offset of the average of
\* the values vals over bin b: average - 1/(2 zoom), held within
\* [0, 1 - 1/zoom], to the nearest ten-thousandth
ClaimIsOffsetOfAverage(v, vals, b) ==
    LET n == Cardinality(ClaimBin(b))
        sum == SumOver(vals, ClaimBin(b))
        \* 2 * CURSOR_ZOOM * n * (average - 1/(2 zoom)) in frames, times FrameUnits
        raw == 2 * CURSOR_ZOOM * sum - 100 * n * FrameUnits
        top == 2 * (CURSOR_ZOOM - 100) * n * FrameUnits
        held == IF raw < 0 THEN 0 ELSE IF raw > top THEN top ELSE raw
        unit == 2 * CURSOR_ZOOM * n * FrameUnits
    IN  /\ 2 * (v * unit - held * 10000) <= unit
        /\ 2 * (held * 10000 - v * unit) <= unit

C40_WitnessCap ==
    /\ ClaimZoomDone /\ IsSome(call.out)
    /\ Cardinality(ClaimBins) > ZOOM_KEYFRAMES
    /\ Len(Unwrap(call.out).keyframes) = ZOOM_KEYFRAMES

\* ---- C33..C35: the finished graph of an export with audio and overlays
ClaimMapped == call.fn = "export_mp4" /\ call.pc = "mapped"

\* the positions of the audio files of clip k (from 1) that exist
ClaimExisting(k) ==
    { j \in 1..Len(call.clips[k].audio_paths) : call.clips[k].audio_paths[j] }

ClaimSomeTrackExists == \E k \in 1..Len(call.clips) : ClaimExisting(k) # {}

\* the audio stages of the graph, in graph order
ClaimAudioNodes == SelectSeq(call.filters, LAMBDA f : f.out.l \in {"a", "aout"})

\* the stage of clip k is of the kind its tracks call for and reads exactly
\* the clip's existing files, in order, at their positions among the inputs
ClaimSegmentKind(node, k) ==
    /\ node.out = Label("a", k - 1)
    /\ node.op = CASE Cardinality(ClaimExisting(k)) = 0 -> "anullsrc"
                   [] Cardinality(ClaimExisting(k)) = 1 -> "anull"
                   [] OTHER -> "amix"
    /\ Len(node.streams) = Cardinality(ClaimExisting(k))
    /\ \A j \in 1..Len(node.streams) :
          LET idx == node.streams[j]
          IN  /\ idx + 1 <= Len(call.inputs)
              /\ call.inputs[idx + 1].kind = "audio"
              /\ call.inputs[idx + 1].clip = k - 1
              /\ call.inputs[idx + 1].track \in ClaimExisting(k)
              /\ \A h \in 1..(j - 1) :
                    call.inputs[node.streams[h] + 1].track < call.inputs[idx + 1].track

\* the concat of all the segments into the one mapped audio output
ClaimAudioConcat(node) ==
    /\ node.op = "concat"
    /\ node.inputs = [k \in 1..Len(call.clips) |-> Label("a", k - 1)]
    /\ node.out = Label("aout", 0)
    /\ call.audio_output_label = Some(Label("aout", 0))

\* C33 (as amended): when some clip has an existing audio track the audio
\* graph has one labelled segment per clip, in clip order: silence of the
\* clip's effective duration rounded to the nearest millisecond for a clip
\* without an existing track, the track passed through for one, a mix for
\* several; the N segments are concatenated into the single audio output; and
\* every referenced input index is the position of that clip's file among
\* the encoder inputs
C33_AudioGraphRounded ==
    (ClaimMapped /\ ClaimSomeTrackExists) =>
        LET an == ClaimAudioNodes
            n == Len(call.clips)
        IN  /\ Len(an) = n + 1
            /\ \A k \in 1..n :
                  /\ ClaimSegmentKind(an[k], k)
                  /\ an[k].op = "anullsrc" =>
                        /\ 2 * (an[k].duration * SubMs - call.eff_durations[k]) <= SubMs
                        /\ 2 * (call.eff_durations[k] - an[k].duration * SubMs) <= SubMs
            /\ ClaimAudioConcat(an[n + 1])

\* C33 witness: three clips, the first silent for a millisecond value that is
\* not its effective duration, the second passed through, the third mixed
C33_Witness ==
    /\ ClaimMapped /\ Len(call.clips) = 3
    /\ Len(ClaimAudioNodes) = 4
    /\ ClaimAudioNodes[1].op = "anullsrc"
    /\ ClaimAudioNodes[1].duration * SubMs # call.eff_durations[1]
    /\ ClaimAudioNodes[2].op = "anull"
    /\ ClaimAudioNodes[3].op = "amix"

\* C33 as stated: the silence lasts exactly the effective duration
C33_AudioGraphExact ==
    (ClaimMapped /\ ClaimSomeTrackExists) =>
        LET an == ClaimAudioNodes
            n == Len(call.clips)
        IN  /\ Len(an) = n + 1
            /\ \A k \in 1..n :
                  /\ ClaimSegmentKind(an[k], k)
                  /\ an[k].op = "anullsrc" =>
                        an[k].duration * SubMs = call.eff_durations[k]
            /\ ClaimAudioConcat(an[n + 1])

\* how long segment k of the audio timeline lasts, in ticks: the silence as
\* written, else the file of the first stream read (amix has duration=first)
ClaimSegmentTicks(k) ==
    LET node == ClaimAudioNodes[k]
    IN  IF node.op = "anullsrc" THEN node.duration * SubMs
        ELSE call.clips[call.inputs[node.streams[1] + 1].clip + 1].probed

RECURSIVE ClaimAudioStart(_)
ClaimAudioStart(k) ==
    IF k = 1 THEN 0 ELSE ClaimAudioStart(k - 1) + ClaimSegmentTicks(k - 1)

\* where clip k begins in the composed video: after the clips before it,
\* less 0.5 s for every non-cut transition crossed
RECURSIVE ClaimVideoStart(_)
ClaimVideoStart(k) ==
    IF k = 1 THEN 0
    ELSE ClaimVideoStart(k - 1) + call.eff_durations[k - 1]
         - (IF \E f \in { call.filters[h] : h \in 1..Len(call.filters) } :
                  f.op = "xfade" /\ f.out = Label("v", k - 2)
            THEN TRANSITION_DURATION * SubMs ELSE 0)

\* C34: in an export with audio the audio of every clip begins in the audio
\* timeline where the clip's video begins in the composed video (to within
\* the millisecond rounding of the segments before it)
C34_AudioStartsWithVideo ==
    (ClaimMapped /\ IsSome(call.audio_output_label)) =>
        \A k \in 1..Len(call.clips) :
            /\ ClaimAudioStart(k) - ClaimVideoStart(k) <= k * SubMs
            /\ ClaimVideoStart(k) - ClaimAudioStart(k) <= k * SubMs

\* the labels a stage reads; a clip chain reads input stream [i:v], no label
ClaimReads(f) == IF f.op = "chain" THEN <<>> ELSE f.inputs

\* the (stage, position) pairs at which label l is read
ClaimReaders(l) ==
    { <<k, j>> \in (1..Len(call.filters)) \X (1..MaxMixClips) :
        j <= Len(ClaimReads(call.filters[k])) /\ ClaimReads(call.filters[k])[j] = l }

ClaimMaps == { call.maps[m] : m \in 1..Len(call.maps) }

\* C35: in the finished graph every label is defined by exactly one stage,
\* every label that is not mapped is read exactly once, by a later stage, and
\* every mapped label is defined in the graph and read by no stage
C35_LabelsWellFormed ==
    ClaimMapped =>
        /\ \A k, h \in 1..Len(call.filters) :
              k # h => call.filters[k].out # call.filters[h].out
        /\ \A k \in 1..Len(call.filters) :
              call.filters[k].out \notin ClaimMaps =>
                  /\ Cardinality(ClaimReaders(call.filters[k].out)) = 1
                  /\ \A r \in ClaimReaders(call.filters[k].out) : r[1] > k
        /\ \A l \in ClaimMaps :
              /\ \E k \in 1..Len(call.filters) : call.filters[k].out = l
              /\ ClaimReaders(l) = {}

\* C35 witness: three clips chained through a cross-fade, with overlays and
\* audio: [vfinal] and [aout] are mapped
C35_Witness ==
    /\ ClaimMapped /\ Len(call.clips) = 3
    /\ \E k \in 1..Len(call.filters) : call.filters[k].op = "xfade"
    /\ call.maps = <<Label("vfinal", 0), Label("aout", 0)>>

====
